---- MODULE Spec2Model ----
(***************************************************************************)
(* License & device authorization engine and billing-event reconciler of   *)
(* the homework-backend service: the licenses / authorized_devices / users *)
(* / subscription_history tables, the Stripe webhook handlers, the         *)
(* license-key and login-license device authorization endpoints and the    *)
(* LicenseService validation and device activation calls.                  *)
(*                                                                         *)
(* A request is a process; one step of a process is the code between two   *)
(* awaits together with the store call the await waits for (JavaScript     *)
(* runs the code between awaits without interruption, the store executes   *)
(* each call atomically).                                                  *)
(***************************************************************************)
EXTENDS Integers, Sequences, FiniteSets, TLC

\* ---------------------------------------------------------------- bounds
MaxTick == 1          \* billing runs: the clock takes 0..MaxTick and FarFuture
MaxDeviceTick == 0    \* device runs: the clock takes 0..MaxDeviceTick and FarFuture
MaxLicenses == 2      \* rows of the licenses table
MaxHistory == 2       \* rows of the subscription_history table
NumProcs == 2         \* requests that can be in flight together
MaxDeviceRows == 4    \* rows of the authorized_devices table
MaxDeviceLicenses == 1 \* rows of the licenses table where devices are authorized
MaxDeviceHistory == 1  \* rows of subscription_history where devices are authorized
MaxReconcileRows == 1  \* device rows in the runs that reconcile billing events
MaxBlocked == 2        \* requests sent beyond the limit of one limiter window

\* ------------------------------------------------------- program constants
TrialDays == 14
YearDays == 365
EnterpriseYears == 3
DefaultMaxDevices == 3
EnterpriseMaxDevices == 10
ControllerDeviceLimit == 3

NULL == "null"
NoTime == -1

Procs == 1..NumProcs
FarFuture == MaxTick + MaxDeviceTick + EnterpriseYears * YearDays + 1
TimePoints(maxTick) == (0..maxTick) \cup {FarFuture}

\* ------------------------------------------------- accounts and the provider
Users == {"u1"}
EmailOf(u) == "mail_" \o u
CustomerOf(u) == "cus_" \o u
DeviceOrder == <<"A", "B", "C", "D">>
DeviceIds == {DeviceOrder[i] : i \in 1..Len(DeviceOrder)}

PremiumPriceId == "price_premium"
EnterprisePriceId == "price_enterprise"

\* the provider's subscription objects (stripe.subscriptions.retrieve)
StripeSubscriptions ==
  [ sub_1 |-> [customer |-> "cus_u1", price |-> "price_standard",
               current_period_end |-> 30],
    sub_2 |-> [customer |-> "cus_u1", price |-> EnterprisePriceId,
               current_period_end |-> 30] ]

\* the billing events the provider delivers; the index is the event identifier
Events ==
  << [type |-> "checkout.session.completed", sub |-> "sub_1",
      customer |-> "cus_u1", userId |-> "u1", status |-> "active"],
     [type |-> "customer.subscription.created", sub |-> "sub_1",
      customer |-> "cus_u1", userId |-> NULL, status |-> "active"],
     [type |-> "invoice.payment_succeeded", sub |-> "sub_1",
      customer |-> "cus_u1", userId |-> NULL, status |-> "active"],
     [type |-> "customer.subscription.updated", sub |-> "sub_1",
      customer |-> "cus_u1", userId |-> NULL, status |-> "past_due"],
     [type |-> "customer.subscription.updated", sub |-> "sub_1",
      customer |-> "cus_u1", userId |-> NULL, status |-> "trialing"],
     [type |-> "customer.subscription.deleted", sub |-> "sub_1",
      customer |-> "cus_u1", userId |-> NULL, status |-> "canceled"],
     [type |-> "invoice.payment_failed", sub |-> "sub_1",
      customer |-> "cus_u1", userId |-> NULL, status |-> "past_due"],
     [type |-> "customer.created", sub |-> "sub_1",
      customer |-> "cus_u1", userId |-> NULL, status |-> "active"],
     [type |-> "checkout.session.completed", sub |-> "sub_1",
      customer |-> "cus_u1", userId |-> NULL, status |-> "active"],
     [type |-> "customer.subscription.created", sub |-> "sub_1",
      customer |-> "cus_gone", userId |-> NULL, status |-> "active"],
     [type |-> "checkout.session.completed", sub |-> "sub_2",
      customer |-> "cus_u1", userId |-> "u1", status |-> "active"],
     [type |-> "customer.subscription.updated", sub |-> "sub_1",
      customer |-> "cus_u1", userId |-> NULL, status |-> "active"],
     [type |-> "customer.subscription.created", sub |-> "sub_1",
      customer |-> "cus_u1", userId |-> NULL, status |-> "incomplete"] >>
EventIds == 1..Len(Events)

Signatures == {"valid", "tampered", "missing"}

\* ------------------------------------------------------------------ state
VARIABLES
  now,            \* the clock read by Date.now() / new Date()
  schemaMigrated, \* licenses-schema.sql applied: users.license_key dropped,
                  \* CHECK on licenses.license_type in force
  users,          \* users table: the subscription fields of each account
  licenses,       \* licenses table, in insertion (created_at) order; id = index
  devices,        \* authorized_devices table: a set of rows
  history,        \* subscription_history table, in insertion order
  proc,           \* the requests in flight: position and local variables
  hits            \* webhookLimiter: requests counted in the current window

vars == <<now, schemaMigrated, users, licenses, devices, history, proc, hits>>
db == <<users, licenses, devices, history>>

NoKey == [u |-> "none", t |-> NoTime]
NoRow == [device_id |-> "none", created_at |-> NoTime]
NoResp == [status |-> 0, body |-> "none", count |-> 0, max |-> 0]

IdleProc ==
  [pc |-> "idle", op |-> "none", evt |-> 0, usr |-> NULL, lic |-> 0,
   dev |-> NULL, key |-> NoKey, cnt |-> 0, old |-> NoRow, exp |-> NoTime,
   ust |-> NULL, max |-> 0, had |-> FALSE, pre |-> 0, disp |-> FALSE,
   prev |-> 0, verified |-> FALSE,
   resp |-> NoResp]

Init ==
  /\ now = 0
  /\ schemaMigrated \in BOOLEAN
  /\ users = [u \in Users |->
               [subscription_status |-> "free", subscription_id |-> NULL,
                subscription_current_period_end |-> NoTime]]
  /\ licenses = << >>
  /\ devices = {}
  /\ history = << >>
  /\ proc = [p \in Procs |-> IdleProc]
  /\ hits = 0

\* ----------------------------------------------------------------- helpers
Free(p) == proc[p].pc \in {"idle", "done"}
InFlight(p) == ~Free(p)

\* the request of process p ends with the given response
Respond(p, status, body) ==
  [IdleProc EXCEPT !.pc = "done", !.op = proc[p].op, !.evt = proc[p].evt,
                   !.usr = proc[p].usr,
                   !.resp = [status |-> status, body |-> body,
                             count |-> 0, max |-> 0]]

UserOfCustomer(c) ==
  IF \E u \in Users : CustomerOf(u) = c
  THEN CHOOSE u \in Users : CustomerOf(u) = c
  ELSE NULL

UserOfEmail(m) ==
  IF \E u \in Users : EmailOf(u) = m
  THEN CHOOSE u \in Users : EmailOf(u) = m
  ELSE NULL

LicenseIds == 1..Len(licenses)
\* the device query without its license filter
DevicesOf_All(l) == devices

\* .from('authorized_devices') ... .eq('license_id', license.id)
DevicesOf(l) == {d \in devices : d.license_id = l}

\* the clock advances between any two steps
Tick(maxTick) ==
  /\ \E t \in TimePoints(maxTick) :
       /\ t > now
       /\ \A s \in TimePoints(maxTick) : s > now => t <= s
       /\ now' = t
  /\ UNCHANGED <<schemaMigrated, hits, users, licenses, devices, history, proc>>

\* -------------------------------------------------------- license issuance
LicenseTypes == {"trial", "standard", "premium", "enterprise"}
LicenseStatuses == {"active", "expired", "revoked", "inactive"}

\* price identifier -> license type (the if / else-if chain of the handlers)
LicenseTypeOfPrice(priceId) ==
  IF priceId = PremiumPriceId THEN "premium"
  ELSE IF priceId = EnterprisePriceId THEN "enterprise"
  ELSE "standard"

\* LIC-{first 8 characters of the user id}-{Date.now()}
LicenseKeyOf(userId, t) == [u |-> userId, t |-> t]

\* the switch on licenseType; a type outside the four cases keeps new Date()
ExpiresAtOf(licenseType, t) ==
  CASE licenseType = "trial" -> t + TrialDays
    [] licenseType = "standard" -> t + YearDays
    [] licenseType = "premium" -> t + YearDays
    [] licenseType = "enterprise" -> t + EnterpriseYears * YearDays
    [] OTHER -> t

\* the quota of the earlier variant: enterprise 10, premium 5, otherwise 1
MaxDevicesOf_Earlier(licenseType) ==
  IF licenseType = "enterprise" THEN EnterpriseMaxDevices
  ELSE IF licenseType = "premium" THEN 5 ELSE 1

\* max_devices: licenseType === 'enterprise' ? 10 : 3
MaxDevicesOf(licenseType) ==
  IF licenseType = "enterprise" THEN EnterpriseMaxDevices ELSE DefaultMaxDevices

\* the licenses table without the UNIQUE constraint on license_key
InsertLicenseOk_NoUnique(row) ==
  schemaMigrated => row.license_type \in LicenseTypes

\* the constraints of the licenses table: license_key UNIQUE, and the CHECK on
\* license_type once licenses-schema.sql is applied
InsertLicenseOk(row) ==
  /\ \A i \in LicenseIds : licenses[i].license_key # row.license_key
  /\ schemaMigrated => row.license_type \in LicenseTypes

\* LicenseService.generateLicenseKey: the row it inserts
generateLicenseKey(userId, licenseType, stripeCustomerId, stripeSubscriptionId) ==
  [user_id |-> userId, user_email |-> NULL,
   license_key |-> LicenseKeyOf(userId, now),
   license_type |-> licenseType, status |-> "active",
   expires_at |-> ExpiresAtOf(licenseType, now),
   max_devices |-> MaxDevicesOf(licenseType),
   stripe_customer_id |-> stripeCustomerId,
   stripe_subscription_id |-> stripeSubscriptionId]

\* ----------------------------------------------------------------- webhooks
\* the values of Stripe.Subscription.Status, the parameter of mapStripeStatus
ProviderStatuses ==
  {"active", "past_due", "canceled", "trialing", "incomplete",
   "incomplete_expired", "unpaid", "paused"}

\* the provider's status written through unchanged
mapStripeStatus_PassThrough(stripeStatus) == stripeStatus

mapStripeStatus(stripeStatus) ==
  CASE stripeStatus = "active" -> "active"
    [] stripeStatus = "canceled" -> "canceled"
    [] stripeStatus = "past_due" -> "past_due"
    [] OTHER -> "canceled"

IssuingTypes == {"checkout.session.completed", "customer.subscription.created",
                 "invoice.payment_succeeded"}
HistoryTypes == {"checkout.session.completed", "customer.subscription.created",
                 "customer.subscription.updated", "customer.subscription.deleted"}
\* the switch with one more case, for customer.created
HandledTypes_CustomerCreated ==
  IssuingTypes \cup HistoryTypes \cup {"invoice.payment_failed", "customer.created"}

\* the cases of the switch on event.type
HandledTypes == IssuingTypes \cup HistoryTypes \cup {"invoice.payment_failed"}

PendingLicenses ==
  Cardinality({q \in Procs : proc[q].pc \in {"issue", "l_lic", "l_create"}})
PendingHistory ==
  Cardinality({q \in Procs : /\ proc[q].pc \in {"issue", "user", "hist"}
                             /\ Events[proc[q].evt].type \in HistoryTypes})
RoomForLicense == Len(licenses) + PendingLicenses < MaxLicenses
RoomForHistory == Len(history) + PendingHistory < MaxHistory

\* a resolution that falls back on some account when none is found
ResolvedUser_Fallback(ev) ==
  LET found == CASE ev.type = "checkout.session.completed" -> ev.userId
                 [] ev.type = "invoice.payment_succeeded" ->
                      IF schemaMigrated THEN NULL ELSE UserOfCustomer(ev.customer)
                 [] OTHER -> UserOfCustomer(ev.customer)
  IN IF found = NULL THEN CHOOSE u \in Users : TRUE ELSE found

\* the account a handler resolves before its first write
ResolvedUser(ev) ==
  CASE ev.type = "checkout.session.completed" -> ev.userId
    [] ev.type = "invoice.payment_succeeded" ->
         IF schemaMigrated THEN NULL ELSE UserOfCustomer(ev.customer)
    [] OTHER -> UserOfCustomer(ev.customer)

FirstStep(ev) ==
  IF ev.type \in IssuingTypes THEN "issue" ELSE "user"

\* the event whose delivery process p acknowledged just before the request
\* that starts now (0: the previous request was not an acknowledged delivery)
LastAcknowledged(p) ==
  IF proc[p].pc = "done" /\ proc[p].op = "webhook" /\ proc[p].resp.status = 200
  THEN proc[p].evt
  ELSE 0

\* verification switched off: every signature passes
SignatureVerifies_Skipped(sig) == TRUE

\* stripe.webhooks.constructEvent(req.body, sig, secret) returns the event
\* only for a signature computed over the payload received
SignatureVerifies(sig) == sig = "valid"

\* handleWebhook up to the first store call of the handler it dispatches to
handleWebhook(p, e, sig, secretSet, rawBody) ==
  /\ Free(p)
  /\ LET ev == Events[e]
         u == ResolvedUser(ev)
         req == [IdleProc EXCEPT !.op = "webhook", !.evt = e,
                                 !.prev = LastAcknowledged(p),
                                 !.verified = secretSet /\ rawBody /\ sig = "valid"]
         answer(status, body) ==
           [req EXCEPT !.pc = "done", !.prev = 0,
                       !.resp.status = status, !.resp.body = body]
         reject(status, body) ==
           [IdleProc EXCEPT !.op = "webhook", !.pc = "done",
                            !.resp.status = status, !.resp.body = body]
     IN
       IF ~secretSet THEN
         /\ proc' = [proc EXCEPT ![p] = reject(500, "Webhook secret not configured")]
       ELSE IF ~rawBody THEN
         /\ proc' = [proc EXCEPT ![p] = reject(400, "Invalid webhook body format")]
       ELSE IF ~SignatureVerifies(sig) THEN
         /\ proc' = [proc EXCEPT ![p] = reject(400, "Webhook Error")]
       ELSE IF ev.type \notin HandledTypes THEN
         /\ proc' = [proc EXCEPT ![p] = answer(200, "received")]
       ELSE IF u = NULL THEN
         /\ proc' = [proc EXCEPT ![p] = [answer(200, "received") EXCEPT !.disp = TRUE]]
       ELSE
         /\ ev.type \in IssuingTypes => RoomForLicense
         /\ ev.type \in HistoryTypes => RoomForHistory
         /\ proc' = [proc EXCEPT ![p] =
                       [req EXCEPT !.pc = FirstStep(ev), !.usr = u, !.disp = TRUE]]
  /\ UNCHANGED <<now, schemaMigrated, users, licenses, devices, history>>

\* max: 10, // Max 10 webhook requests per minute per IP
WebhookWindowMax == 10

\* a limiter that lets one request more through
webhookLimiter_OneMore(p, e, sig, secretSet, rawBody) ==
  /\ hits' = hits + 1
  /\ IF hits + 1 > WebhookWindowMax + 1 THEN
       /\ Free(p)
       /\ proc' = [proc EXCEPT ![p] =
                     [IdleProc EXCEPT !.op = "webhook", !.pc = "done",
                                      !.resp.status = 429,
                                      !.resp.body = "Too many webhook requests"]]
       /\ UNCHANGED <<now, schemaMigrated, users, licenses, devices, history>>
     ELSE handleWebhook(p, e, sig, secretSet, rawBody)

\* router.post('/webhook', webhookLimiter, handleWebhook): rateLimit counts
\* every request of the client address in the current window and hands the
\* request on while the count is at most max; otherwise its handler answers
\* 429 and the webhook handler is not called
webhookLimiter(p, e, sig, secretSet, rawBody) ==
  /\ hits' = hits + 1
  /\ IF hits + 1 > WebhookWindowMax THEN
       /\ Free(p)
       /\ proc' = [proc EXCEPT ![p] =
                     [IdleProc EXCEPT !.op = "webhook", !.pc = "done",
                                      !.resp.status = 429,
                                      !.resp.body = "Too many webhook requests"]]
       /\ UNCHANGED <<now, schemaMigrated, users, licenses, devices, history>>
     ELSE handleWebhook(p, e, sig, secretSet, rawBody)

\* windowMs: 1 * 60 * 1000: the window ends and the count starts again
WindowExpires ==
  /\ hits > 0
  /\ hits' = 0
  /\ UNCHANGED <<now, schemaMigrated, users, licenses, devices, history, proc>>

\* the handler of process p is at step pc of an event of the given type
AtStep(p, type, pc) ==
  /\ proc[p].op = "webhook"
  /\ proc[p].pc = pc
  /\ Events[proc[p].evt].type = type

Ack(p) ==
  proc' = [proc EXCEPT ![p] = Respond(p, 200, "received")]

HandlerFailed(p) ==
  proc' = [proc EXCEPT ![p] = Respond(p, 500, "Webhook handler failed")]

HistoryRow(u, sub, status) ==
  [user_id |-> u, stripe_subscription_id |-> sub, status |-> status]

handleCheckoutComplete(p) ==
  LET ev == Events[proc[p].evt]
      u == proc[p].usr
      subscription == StripeSubscriptions[ev.sub]
      row == generateLicenseKey(u, LicenseTypeOfPrice(subscription.price),
                                subscription.customer, ev.sub)
  IN
  \/ /\ AtStep(p, "checkout.session.completed", "issue")
     /\ IF InsertLicenseOk(row)
        THEN /\ licenses' = Append(licenses, row)
             /\ proc' = [proc EXCEPT ![p].pc = "user", ![p].key = row.license_key]
            ELSE /\ HandlerFailed(p)
             /\ UNCHANGED licenses
     /\ UNCHANGED <<now, schemaMigrated, hits, users, devices, history>>
  \/ /\ AtStep(p, "checkout.session.completed", "user")
     /\ users' = [users EXCEPT ![u] =
                    [subscription_status |-> "active",
                     subscription_id |-> ev.sub,
                     subscription_current_period_end |->
                       subscription.current_period_end]]
     /\ proc' = [proc EXCEPT ![p].pc = "hist"]
     /\ UNCHANGED <<now, schemaMigrated, hits, licenses, devices, history>>
  \/ /\ AtStep(p, "checkout.session.completed", "hist")
     /\ history' = Append(history, HistoryRow(u, ev.sub, "active"))
     /\ Ack(p)
     /\ UNCHANGED <<now, schemaMigrated, hits, users, licenses, devices>>

handleSubscriptionCreated(p) ==
  LET ev == Events[proc[p].evt]
      u == proc[p].usr
      subscription == StripeSubscriptions[ev.sub]
      status == mapStripeStatus(ev.status)
      row == generateLicenseKey(u, LicenseTypeOfPrice(subscription.price),
                                ev.customer, ev.sub)
  IN
  \/ /\ AtStep(p, "customer.subscription.created", "issue")
     /\ IF InsertLicenseOk(row)
        THEN /\ licenses' = Append(licenses, row)
             /\ proc' = [proc EXCEPT ![p].pc = "user", ![p].key = row.license_key]
        ELSE /\ proc' = [proc EXCEPT ![p].pc = "user"]
             /\ UNCHANGED licenses
     /\ UNCHANGED <<now, schemaMigrated, hits, users, devices, history>>
  \/ /\ AtStep(p, "customer.subscription.created", "user")
     /\ users' = [users EXCEPT ![u] =
                    [subscription_status |-> status,
                     subscription_id |-> ev.sub,
                     subscription_current_period_end |->
                       subscription.current_period_end]]
     /\ proc' = [proc EXCEPT ![p].pc = "hist"]
     /\ UNCHANGED <<now, schemaMigrated, hits, licenses, devices, history>>
  \/ /\ AtStep(p, "customer.subscription.created", "hist")
     /\ history' = Append(history, HistoryRow(u, ev.sub, status))
     /\ Ack(p)
     /\ UNCHANGED <<now, schemaMigrated, hits, users, licenses, devices>>

handlePaymentSucceeded(p) ==
  LET ev == Events[proc[p].evt]
      u == proc[p].usr
      subscription == StripeSubscriptions[ev.sub]
      row == generateLicenseKey(u, LicenseTypeOfPrice(subscription.price),
                                ev.customer, ev.sub)
  IN
  \/ /\ AtStep(p, "invoice.payment_succeeded", "issue")
     /\ IF InsertLicenseOk(row)
        THEN /\ licenses' = Append(licenses, row)
             /\ proc' = [proc EXCEPT ![p].pc = "user", ![p].key = row.license_key]
        ELSE /\ proc' = [proc EXCEPT ![p].pc = "user"]
             /\ UNCHANGED licenses
     /\ UNCHANGED <<now, schemaMigrated, hits, users, devices, history>>
  \/ /\ AtStep(p, "invoice.payment_succeeded", "user")
     /\ users' = [users EXCEPT ![u].subscription_status = "active"]
     /\ Ack(p)
     /\ UNCHANGED <<now, schemaMigrated, hits, licenses, devices, history>>

\* the handler issuing a license again on every update
handleSubscriptionUpdate_Reissues(p) ==
  LET ev == Events[proc[p].evt]
      u == proc[p].usr
      subscription == StripeSubscriptions[ev.sub]
      status == mapStripeStatus(ev.status)
      row == generateLicenseKey(u, LicenseTypeOfPrice(subscription.price),
                                ev.customer, ev.sub)
  IN
  \/ /\ AtStep(p, "customer.subscription.updated", "user")
     /\ users' = [users EXCEPT
                    ![u].subscription_status = status,
                    ![u].subscription_current_period_end =
                       subscription.current_period_end]
     /\ licenses' = IF InsertLicenseOk(row) THEN Append(licenses, row)
                                              ELSE licenses
     /\ proc' = [proc EXCEPT ![p].pc = "hist"]
     /\ UNCHANGED <<now, schemaMigrated, hits, devices, history>>
  \/ /\ AtStep(p, "customer.subscription.updated", "hist")
     /\ history' = Append(history, HistoryRow(u, ev.sub, status))
     /\ Ack(p)
     /\ UNCHANGED <<now, schemaMigrated, hits, users, licenses, devices>>

handleSubscriptionUpdate(p) ==
  LET ev == Events[proc[p].evt]
      u == proc[p].usr
      subscription == StripeSubscriptions[ev.sub]
      status == mapStripeStatus(ev.status)
  IN
  \/ /\ AtStep(p, "customer.subscription.updated", "user")
     /\ users' = [users EXCEPT
                    ![u].subscription_status = status,
                    ![u].subscription_current_period_end =
                       subscription.current_period_end]
     /\ proc' = [proc EXCEPT ![p].pc = "hist"]
     /\ UNCHANGED <<now, schemaMigrated, hits, licenses, devices, history>>
  \/ /\ AtStep(p, "customer.subscription.updated", "hist")
     /\ history' = Append(history, HistoryRow(u, ev.sub, status))
     /\ Ack(p)
     /\ UNCHANGED <<now, schemaMigrated, hits, users, licenses, devices>>

\* the handler revoking the customer's licenses along with the cancellation
handleSubscriptionDeleted_Revokes(p) ==
  LET ev == Events[proc[p].evt]
      u == proc[p].usr
  IN
  \/ /\ AtStep(p, "customer.subscription.deleted", "user")
     /\ users' = [users EXCEPT
                    ![u].subscription_status = "canceled",
                    ![u].subscription_current_period_end = NoTime]
     /\ licenses' = [i \in LicenseIds |->
                       IF licenses[i].user_id = u
                       THEN [licenses[i] EXCEPT !.status = "revoked"]
                       ELSE licenses[i]]
     /\ proc' = [proc EXCEPT ![p].pc = "hist"]
     /\ UNCHANGED <<now, schemaMigrated, hits, devices, history>>
  \/ /\ AtStep(p, "customer.subscription.deleted", "hist")
     /\ history' = Append(history, HistoryRow(u, ev.sub, "canceled"))
     /\ Ack(p)
     /\ UNCHANGED <<now, schemaMigrated, hits, users, licenses, devices>>

handleSubscriptionDeleted(p) ==
  LET ev == Events[proc[p].evt]
      u == proc[p].usr
  IN
  \/ /\ AtStep(p, "customer.subscription.deleted", "user")
     /\ users' = [users EXCEPT
                    ![u].subscription_status = "canceled",
                    ![u].subscription_current_period_end = NoTime]
     /\ proc' = [proc EXCEPT ![p].pc = "hist"]
     /\ UNCHANGED <<now, schemaMigrated, hits, licenses, devices, history>>
  \/ /\ AtStep(p, "customer.subscription.deleted", "hist")
     /\ history' = Append(history, HistoryRow(u, ev.sub, "canceled"))
     /\ Ack(p)
     /\ UNCHANGED <<now, schemaMigrated, hits, users, licenses, devices>>

\* the handler writing the status of a cancellation
handlePaymentFailed_Canceled(p) ==
  /\ AtStep(p, "invoice.payment_failed", "user")
  /\ users' = [users EXCEPT ![proc[p].usr].subscription_status = "canceled"]
  /\ Ack(p)
  /\ UNCHANGED <<now, schemaMigrated, hits, licenses, devices, history>>

handlePaymentFailed(p) ==
  /\ AtStep(p, "invoice.payment_failed", "user")
  /\ users' = [users EXCEPT ![proc[p].usr].subscription_status = "past_due"]
  /\ Ack(p)
  /\ UNCHANGED <<now, schemaMigrated, hits, licenses, devices, history>>

\* ------------------------------------------------------ device authorization
\* the order reversed: the rows validated last come first
OldestRows_Newest(l) ==
  {d \in DevicesOf(l) :
     \A o \in DevicesOf(l) : d.last_validated >= o.last_validated}

\* .order('last_validated', {ascending: true, nullsFirst: true}): the rows
\* that can come first (rows with equal last_validated come in any order)
OldestRows(l) ==
  {d \in DevicesOf(l) :
     \A o \in DevicesOf(l) : d.last_validated <= o.last_validated}

RowId(d) == [device_id |-> d.device_id, created_at |-> d.created_at]

\* a plain insert, on a table without UNIQUE(license_id, device_id)
Upsert_Insert(l, dev) ==
  devices \cup {[license_id |-> l, device_id |-> dev,
                 last_validated |-> now, created_at |-> now]}

\* .upsert({license_id, device_id, device_name, last_validated: now},
\*         {onConflict: 'license_id, device_id'})
Upsert(l, dev) ==
  IF \E d \in DevicesOf(l) : d.device_id = dev
  THEN {IF d.license_id = l /\ d.device_id = dev
        THEN [d EXCEPT !.last_validated = now] ELSE d : d \in devices}
  ELSE devices \cup {[license_id |-> l, device_id |-> dev,
                      last_validated |-> now, created_at |-> now]}

\* .delete().eq('id', oldestDevice.id)
\* a delete that matches no row
DeleteRow_None(l, id) == devices

\* .delete().eq('id', oldestDevice.id)
DeleteRow(l, id) ==
  {d \in devices : ~(d.license_id = l /\ RowId(d) = id)}

\* the limit test with a strict comparison, which would admit a fourth row
AtDeviceLimit_OffByOne(deviceCount) == deviceCount > ControllerDeviceLimit

\* if (deviceCount >= 3)
AtDeviceLimit(deviceCount) == deviceCount >= ControllerDeviceLimit

\* the operations that run the sequence below
AuthorizationOps == {"validate", "login"}

\* the sequence with the count derived from the first read instead of a
\* final query
AuthorizeSteps_CountFromRead(p) ==
  LET l == proc[p].lic IN
  \/ /\ proc[p].pc = "devs"
     /\ LET read == [proc[p] EXCEPT
                        !.pre = Cardinality(DevicesOf(l)),
                        !.had = \E d \in DevicesOf(l) : d.device_id = proc[p].dev]
        IN
        IF AtDeviceLimit(Cardinality(DevicesOf(l)))
        THEN \E d \in OldestRows(l) :
               proc' = [proc EXCEPT ![p] = [read EXCEPT !.pc = "del",
                                                        !.old = RowId(d)]]
        ELSE proc' = [proc EXCEPT ![p] = [read EXCEPT !.pc = "upsert"]]
     /\ UNCHANGED <<now, schemaMigrated, hits, users, licenses, devices, history>>
  \/ /\ proc[p].pc = "del"
     /\ devices' = DeleteRow(l, proc[p].old)
     /\ proc' = [proc EXCEPT ![p].pc = "upsert", ![p].old = NoRow]
     /\ UNCHANGED <<now, schemaMigrated, hits, users, licenses, history>>
  \/ /\ proc[p].pc = "upsert"
     /\ devices' = Upsert(l, proc[p].dev)
     /\ proc' = [proc EXCEPT ![p].pc = "count"]
     /\ UNCHANGED <<now, schemaMigrated, hits, users, licenses, history>>
  \/ /\ proc[p].pc = "count"
     /\ proc' = [proc EXCEPT ![p] =
                   [Respond(p, 200, "valid") EXCEPT
                      !.resp.count = proc[p].pre + 1,
                      !.resp.max = ControllerDeviceLimit]]
     /\ UNCHANGED <<now, schemaMigrated, hits, users, licenses, devices, history>>

\* the read-evict-upsert-count sequence shared by validate-license and
\* login-license, for the request of process p
AuthorizeSteps(p) ==
  LET l == proc[p].lic IN
  \/ /\ proc[p].pc = "devs"
     /\ LET read == [proc[p] EXCEPT
                        !.pre = Cardinality(DevicesOf(l)),
                        !.had = \E d \in DevicesOf(l) : d.device_id = proc[p].dev]
        IN
        IF AtDeviceLimit(Cardinality(DevicesOf(l)))
        THEN \E d \in OldestRows(l) :
               proc' = [proc EXCEPT ![p] = [read EXCEPT !.pc = "del",
                                                        !.old = RowId(d)]]
        ELSE proc' = [proc EXCEPT ![p] = [read EXCEPT !.pc = "upsert"]]
     /\ UNCHANGED <<now, schemaMigrated, hits, users, licenses, devices, history>>
  \/ /\ proc[p].pc = "del"
     /\ devices' = DeleteRow(l, proc[p].old)
     /\ proc' = [proc EXCEPT ![p].pc = "upsert", ![p].old = NoRow]
     /\ UNCHANGED <<now, schemaMigrated, hits, users, licenses, history>>
  \/ /\ proc[p].pc = "upsert"
     /\ devices' = Upsert(l, proc[p].dev)
     /\ proc' = [proc EXCEPT ![p].pc = "count"]
     /\ UNCHANGED <<now, schemaMigrated, hits, users, licenses, history>>
  \/ /\ proc[p].pc = "count"
     /\ proc' = [proc EXCEPT ![p] =
                   [Respond(p, 200, "valid") EXCEPT
                      !.resp.count = Cardinality(DevicesOf(l)),
                      !.resp.max = ControllerDeviceLimit]]
     /\ UNCHANGED <<now, schemaMigrated, hits, users, licenses, devices, history>>

KnownKeys == {licenses[i].license_key : i \in LicenseIds}
LicenseOfKey(k) == CHOOSE i \in LicenseIds : licenses[i].license_key = k

\* POST /validate-license: the lookup by license_key and the status check
validateLicenseRequest(p, key, dev) ==
  /\ Free(p)
  /\ LET req == [IdleProc EXCEPT !.op = "validate", !.key = key, !.dev = dev]
     IN
       IF key \notin KnownKeys THEN
         proc' = [proc EXCEPT ![p] =
                    [IdleProc EXCEPT !.pc = "done", !.op = "validate",
                                     !.resp.status = 400,
                                     !.resp.body = "Invalid license key"]]
       ELSE IF licenses[LicenseOfKey(key)].status # "active" THEN
         proc' = [proc EXCEPT ![p] =
                    [IdleProc EXCEPT !.pc = "done", !.op = "validate",
                                     !.resp.status = 400,
                                     !.resp.body = "License inactive",
                                     !.lic = LicenseOfKey(key)]]
       ELSE
         proc' = [proc EXCEPT ![p] =
                    [req EXCEPT !.pc = "devs", !.lic = LicenseOfKey(key)]]
  /\ UNCHANGED <<now, schemaMigrated, hits, users, licenses, devices, history>>

AuthController_validateLicense(p) ==
  /\ proc[p].op = "validate"
  /\ AuthorizeSteps(p)

\* licenses of the account found by .eq('user_email', email).eq('status','active')
ActiveByEmail(email) ==
  {i \in LicenseIds : licenses[i].user_email = email /\ licenses[i].status = "active"}

\* POST /login-license: the user lookup and the password check
loginLicenseRequest(p, email, passwordOk, dev) ==
  /\ Free(p)
  /\ LET u == UserOfEmail(email)
         req == [IdleProc EXCEPT !.op = "login", !.dev = dev]
     IN
       IF u = NULL \/ ~passwordOk THEN
         proc' = [proc EXCEPT ![p] =
                    [IdleProc EXCEPT !.pc = "done", !.op = "login",
                                     !.resp.status = 401,
                                     !.resp.body = "Invalid credentials"]]
       ELSE
         /\ (users[u].subscription_status = "active"
               /\ Cardinality(ActiveByEmail(email)) # 1) => RoomForLicense
         /\ proc' = [proc EXCEPT ![p] =
                       [req EXCEPT !.pc = "l_lic", !.usr = u,
                                   !.ust = users[u].subscription_status,
                                   !.exp = users[u].subscription_current_period_end]]
  /\ UNCHANGED <<now, schemaMigrated, hits, users, licenses, devices, history>>

AuthController_loginAndGetLicense(p) ==
  /\ proc[p].op = "login"
  /\ LET u == proc[p].usr
         found == ActiveByEmail(EmailOf(u))
         row == [user_id |-> u, user_email |-> EmailOf(u),
                 license_key |-> LicenseKeyOf(u, now),
                 license_type |-> "subscription", status |-> "active",
                 expires_at |-> proc[p].exp,
                 max_devices |-> DefaultMaxDevices,
                 stripe_customer_id |-> NULL,
                 stripe_subscription_id |-> NULL]
     IN
     \/ /\ proc[p].pc = "l_lic"
        /\ IF Cardinality(found) = 1
           THEN proc' = [proc EXCEPT ![p].pc = "devs",
                           ![p].lic = CHOOSE i \in found : TRUE,
                           ![p].ust = NULL, ![p].exp = NoTime]
           ELSE IF proc[p].ust = "active"
           THEN proc' = [proc EXCEPT ![p].pc = "l_create"]
           ELSE proc' = [proc EXCEPT ![p] =
                           Respond(p, 403, "No active license or subscription")]
        /\ UNCHANGED <<now, schemaMigrated, hits, users, licenses, devices, history>>
     \/ /\ proc[p].pc = "l_create"
        /\ IF InsertLicenseOk(row)
           THEN /\ licenses' = Append(licenses, row)
                /\ proc' = [proc EXCEPT ![p].pc = "devs",
                              ![p].lic = Len(licenses) + 1,
                              ![p].ust = NULL, ![p].exp = NoTime]
           ELSE /\ proc' = [proc EXCEPT ![p] =
                              Respond(p, 500, "Failed to create license")]
                /\ UNCHANGED licenses
        /\ UNCHANGED <<now, schemaMigrated, hits, users, devices, history>>
     \/ AuthorizeSteps(p)

\* ------------------------------------------------------------ LicenseService
ActiveOfUser(u) ==
  {i \in LicenseIds : licenses[i].user_id = u /\ licenses[i].status = "active"}

BogusKey == [u |-> "bogus", t |-> 0]

\* LicenseService.validateLicense(userId, licenseKey?) up to its update call;
\* activate: the call comes from the validateLicense middleware, which goes on
\* to activateDevice when the license is valid
validateLicenseCall(p, u, key, activate, dev) ==
  /\ Free(p)
  /\ LET found == ActiveOfUser(u)
         l == CHOOSE i \in found : TRUE
         failStatus == IF activate THEN 403 ELSE 200
         req == [IdleProc EXCEPT !.op = IF activate THEN "middleware" ELSE "check",
                                 !.usr = u, !.key = key, !.dev = dev]
         invalid(reason) ==
           [IdleProc EXCEPT !.pc = "done", !.op = req.op, !.usr = u,
                            !.resp.status = failStatus, !.resp.body = reason]
     IN
       IF Cardinality(found) # 1 THEN
         proc' = [proc EXCEPT ![p] = invalid("No active license found")]
       ELSE IF key # NoKey /\ licenses[l].license_key # key THEN
         proc' = [proc EXCEPT ![p] = invalid("Invalid license key")]
       ELSE IF licenses[l].expires_at < now THEN
         proc' = [proc EXCEPT ![p] =
                    [req EXCEPT !.pc = "s_expire", !.lic = l,
                                !.key = licenses[l].license_key]]
       ELSE IF activate THEN
         proc' = [proc EXCEPT ![p] =
                    [req EXCEPT !.pc = "a_lic", !.lic = l,
                                !.key = licenses[l].license_key]]
       ELSE
         proc' = [proc EXCEPT ![p] =
                    [IdleProc EXCEPT !.pc = "done", !.op = req.op, !.usr = u,
                                     !.lic = l, !.resp.status = 200,
                                     !.resp.body = "valid"]]
  /\ UNCHANGED <<now, schemaMigrated, hits, users, licenses, devices, history>>

\* the expired license removed from the table instead of marked
LicenseService_validateLicense_Deletes(p) ==
  /\ proc[p].op \in {"check", "middleware"}
  /\ proc[p].pc = "s_expire"
  /\ licenses' = SelectSeq(licenses,
                    LAMBDA r : ~(/\ r.user_id = proc[p].usr
                                 /\ r.license_key = proc[p].key))
  /\ proc' = [proc EXCEPT ![p] =
                Respond(p, IF proc[p].op = "middleware" THEN 403 ELSE 200,
                        "License has expired")]
  /\ UNCHANGED <<now, schemaMigrated, hits, users, devices, history>>

\* the update({status: 'expired'}) of LicenseService.validateLicense
LicenseService_validateLicense(p) ==
  /\ proc[p].op \in {"check", "middleware"}
  /\ proc[p].pc = "s_expire"
  /\ licenses' = [i \in LicenseIds |->
                    IF /\ licenses[i].user_id = proc[p].usr
                       /\ licenses[i].license_key = proc[p].key
                    THEN [licenses[i] EXCEPT !.status = "expired"]
                    ELSE licenses[i]]
  /\ proc' = [proc EXCEPT ![p] =
                Respond(p, IF proc[p].op = "middleware" THEN 403 ELSE 200,
                        "License has expired")]
  /\ UNCHANGED <<now, schemaMigrated, hits, users, devices, history>>

\* LicenseService.activateDevice(userId, licenseKey), called by the middleware;
\* a false result only logs a warning and the request goes on
LicenseService_activateDevice(p) ==
  /\ proc[p].op = "middleware"
  /\ LET l == proc[p].lic
         notActivated == Respond(p, 200, "valid, device not activated")
         activated == Respond(p, 200, "valid")
         existing == {d \in DevicesOf(l) : d.device_id = proc[p].dev}
     IN
     \/ /\ proc[p].pc = "a_lic"
        /\ IF /\ licenses[l].user_id = proc[p].usr
              /\ licenses[l].license_key = proc[p].key
              /\ licenses[l].status = "active"
           THEN proc' = [proc EXCEPT ![p].pc = "a_devs",
                           ![p].max = IF licenses[l].max_devices = 0
                                      THEN DefaultMaxDevices
                                      ELSE licenses[l].max_devices]
           ELSE proc' = [proc EXCEPT ![p] = notActivated]
        /\ UNCHANGED <<now, schemaMigrated, hits, users, licenses, devices, history>>
     \/ /\ proc[p].pc = "a_devs"
        /\ proc' = [proc EXCEPT ![p].pc = "a_exist",
                                ![p].cnt = Cardinality(DevicesOf(l))]
        /\ UNCHANGED <<now, schemaMigrated, hits, users, licenses, devices, history>>
     \/ /\ proc[p].pc = "a_exist"
        /\ IF existing # {}
           THEN proc' = [proc EXCEPT ![p].pc = "a_touch",
                           ![p].old = RowId(CHOOSE d \in existing : TRUE)]
           ELSE IF proc[p].cnt >= proc[p].max
           THEN proc' = [proc EXCEPT ![p] = notActivated]
           ELSE proc' = [proc EXCEPT ![p].pc = "a_insert"]
        /\ UNCHANGED <<now, schemaMigrated, hits, users, licenses, devices, history>>
     \/ /\ proc[p].pc = "a_touch"
        /\ devices' = {IF d.license_id = l /\ RowId(d) = proc[p].old
                       THEN [d EXCEPT !.last_validated = now] ELSE d :
                       d \in devices}
        /\ proc' = [proc EXCEPT ![p] = activated]
        /\ UNCHANGED <<now, schemaMigrated, hits, users, licenses, history>>
     \/ /\ proc[p].pc = "a_insert"
        /\ IF existing = {}
           THEN /\ devices' = devices \cup
                       {[license_id |-> l, device_id |-> proc[p].dev,
                         last_validated |-> now, created_at |-> now]}
                /\ proc' = [proc EXCEPT ![p] = activated]
           ELSE /\ proc' = [proc EXCEPT ![p] = notActivated]
                /\ UNCHANGED devices
        /\ UNCHANGED <<now, schemaMigrated, hits, users, licenses, history>>

\* a deactivation that also cancels the account's subscription
deactivateDeviceCall_Cancels(p, u, dev) ==
  /\ Free(p)
  /\ LET found == ActiveOfUser(u)
         req == [IdleProc EXCEPT !.op = "deactivate", !.usr = u, !.dev = dev]
     IN
       IF Cardinality(found) # 1 THEN
         proc' = [proc EXCEPT ![p] =
                    [IdleProc EXCEPT !.pc = "done", !.op = "deactivate",
                                     !.usr = u, !.resp.status = 400,
                                     !.resp.body = "Failed to deactivate device"]]
       ELSE
         proc' = [proc EXCEPT ![p] =
                    [req EXCEPT !.pc = "x_delete",
                                !.lic = CHOOSE i \in found : TRUE]]
  /\ users' = [users EXCEPT ![u].subscription_status = "canceled"]
  /\ UNCHANGED <<now, schemaMigrated, hits, licenses, devices, history>>

\* POST /license/deactivate: LicenseService.deactivateDevice(userId, machineId)
\* up to its delete; the route answers 400 when it returns false
deactivateDeviceCall(p, u, dev) ==
  /\ Free(p)
  /\ LET found == ActiveOfUser(u)
         req == [IdleProc EXCEPT !.op = "deactivate", !.usr = u, !.dev = dev]
     IN
       IF Cardinality(found) # 1 THEN
         proc' = [proc EXCEPT ![p] =
                    [IdleProc EXCEPT !.pc = "done", !.op = "deactivate",
                                     !.usr = u, !.resp.status = 400,
                                     !.resp.body = "Failed to deactivate device"]]
       ELSE
         proc' = [proc EXCEPT ![p] =
                    [req EXCEPT !.pc = "x_delete",
                                !.lic = CHOOSE i \in found : TRUE]]
  /\ UNCHANGED <<now, schemaMigrated, hits, users, licenses, devices, history>>

\* .delete().eq('license_id', license.id).eq('device_id', targetMachineId)
LicenseService_deactivateDevice(p) ==
  /\ proc[p].op = "deactivate"
  /\ proc[p].pc = "x_delete"
  /\ devices' = {d \in devices : ~(/\ d.license_id = proc[p].lic
                                   /\ d.device_id = proc[p].dev)}
  /\ proc' = [proc EXCEPT ![p] =
                Respond(p, 200, "Device deactivated successfully")]
  /\ UNCHANGED <<now, schemaMigrated, hits, users, licenses, history>>

\* a call of LicenseService.generateLicenseKey(userId, licenseType, customer,
\* subscription) for any of the four license types: its one store call, the
\* insert, and its result (the key, or the error thrown)
generateLicenseKeyCall(p, u, licenseType, sub) ==
  /\ Free(p)
  /\ LET row == generateLicenseKey(u, licenseType, CustomerOf(u), sub)
         result(status, body) ==
           [IdleProc EXCEPT !.pc = "done", !.op = "issue", !.usr = u,
                            !.resp.status = status, !.resp.body = body]
     IN
       IF InsertLicenseOk(row)
       THEN /\ licenses' = Append(licenses, row)
            /\ proc' = [proc EXCEPT ![p] =
                          [result(200, "issued") EXCEPT !.lic = Len(licenses) + 1]]
       ELSE /\ proc' = [proc EXCEPT ![p] = result(500, "Failed to create license")]
            /\ UNCHANGED licenses
  /\ UNCHANGED <<now, schemaMigrated, hits, users, devices, history>>

\* ------------------------------------------------------------ specifications
NoneInFlight == \A q \in Procs : Free(q)

PendingDevices ==
  Cardinality({q \in Procs :
     proc[q].pc \in {"l_lic", "l_create", "devs", "del", "upsert",
                     "a_lic", "a_devs", "a_exist", "a_insert"}})
RoomForDevice == Cardinality(devices) + PendingDevices < MaxDeviceRows

\* a webhook request; the event is parsed only when the signature verifies
WebhookRequest(p, events) ==
  /\ \/ \E e \in events : handleWebhook(p, e, "valid", TRUE, TRUE)
     \/ \E sig \in Signatures, secretSet \in BOOLEAN, rawBody \in BOOLEAN :
          /\ ~(sig = "valid" /\ secretSet /\ rawBody)
          /\ handleWebhook(p, 1, sig, secretSet, rawBody)
  /\ UNCHANGED hits

\* device identifiers are opaque and only compared for equality: a request
\* comes from a device that has a row, or from the first device without one
DevicesInUse ==
  {d.device_id : d \in devices} \cup
  {proc[q].dev : q \in {r \in Procs : InFlight(r) /\ proc[r].dev # NULL}}
RequestDevices ==
  DevicesInUse \cup
    {DeviceOrder[i] : i \in {j \in 1..Len(DeviceOrder) :
        /\ DeviceOrder[j] \notin DevicesInUse
        /\ \A k \in 1..(j - 1) : DeviceOrder[k] \in DevicesInUse}}

ValidateRequest(p) ==
  \E key \in KnownKeys \cup {BogusKey}, dev \in RequestDevices :
    validateLicenseRequest(p, key, dev)

LoginRequest(p) ==
  \E email \in {EmailOf(u) : u \in Users} \cup {"mail_nobody"},
     passwordOk \in BOOLEAN :
    \E dev \in IF email = "mail_nobody" \/ ~passwordOk THEN {"A"} ELSE RequestDevices :
      loginLicenseRequest(p, email, passwordOk, dev)

CheckRequest(p) ==
  \E u \in Users, key \in KnownKeys \cup {NoKey, BogusKey} :
    validateLicenseCall(p, u, key, FALSE, NULL)

MiddlewareRequest(p) ==
  \E u \in Users, key \in KnownKeys \cup {NoKey, BogusKey}, dev \in RequestDevices :
    validateLicenseCall(p, u, key, TRUE, dev)

\* ---- billing: every billing event, and license validation by account
BillingRequest(p) ==
  \/ WebhookRequest(p, EventIds)
  \/ CheckRequest(p)

BillingStep(p) ==
  \/ handleCheckoutComplete(p)
  \/ handleSubscriptionCreated(p)
  \/ handlePaymentSucceeded(p)
  \/ handleSubscriptionUpdate(p)
  \/ handleSubscriptionDeleted(p)
  \/ handlePaymentFailed(p)
  \/ LicenseService_validateLicense(p)

\* requests handled one at a time
BillingNext ==
  \/ Tick(MaxTick)
  \/ NoneInFlight /\ BillingRequest(1)
  \/ \E p \in Procs : BillingStep(p)

BillingSpec == Init /\ [][BillingNext]_vars

\* the handlers that issue a license, run in parallel for one subscription,
\* their store calls interleaved
IssuingEvents ==
  {e \in EventIds : /\ Events[e].type \in IssuingTypes
                    /\ Events[e].sub = "sub_1"
                    /\ Events[e].customer = "cus_u1"}

BillingParallelNext ==
  \/ Tick(MaxTick)
  \/ \E p \in Procs : WebhookRequest(p, IssuingEvents)
  \/ \E p \in Procs : handleCheckoutComplete(p)
  \/ \E p \in Procs : handleSubscriptionCreated(p)
  \/ \E p \in Procs : handlePaymentSucceeded(p)

BillingParallelSpec == Init /\ [][BillingParallelNext]_vars

\* ---- devices: licenses issued by checkout or by login-license, and every
\* authorization path
CheckoutEvents ==
  {e \in EventIds : /\ Events[e].type = "checkout.session.completed"
                    /\ Events[e].userId # NULL}

DeviceEvents ==
  {e \in EventIds :
     \/ /\ Events[e].type = "checkout.session.completed"
        /\ Events[e].userId # NULL
     \/ /\ Events[e].type = "customer.subscription.updated"
        /\ Events[e].status = "active"}

RoomForDeviceLicense == Len(licenses) + PendingLicenses < MaxDeviceLicenses
RoomForDeviceHistory == Len(history) + PendingHistory < MaxDeviceHistory

LoginMayCreate ==
  \E u \in Users : /\ users[u].subscription_status = "active"
                   /\ Cardinality(ActiveByEmail(EmailOf(u))) # 1

DeviceRequest(p) ==
  \/ /\ RoomForDeviceLicense
     /\ RoomForDeviceHistory
     /\ WebhookRequest(p, DeviceEvents)
  \/ RoomForDevice /\ ValidateRequest(p)
  \/ /\ RoomForDevice
     /\ LoginMayCreate => RoomForDeviceLicense
     /\ LoginRequest(p)
  \/ CheckRequest(p)
  \/ RoomForDevice /\ MiddlewareRequest(p)

DeviceStep(p) ==
  \/ handleCheckoutComplete(p)
  \/ handleSubscriptionUpdate(p)
  \/ AuthController_validateLicense(p)
  \/ AuthController_loginAndGetLicense(p)
  \/ LicenseService_validateLicense(p)
  \/ LicenseService_activateDevice(p)

DeviceNext ==
  \/ Tick(MaxDeviceTick)
  \/ NoneInFlight /\ DeviceRequest(1)
  \/ \E p \in Procs : DeviceStep(p)

DeviceSpec == Init /\ [][DeviceNext]_vars

\* authorizations by license key run in parallel, their store calls
\* interleaved; a checkout issues the license while none is in flight
DeviceParallelNext ==
  \/ Tick(MaxDeviceTick)
  \/ /\ NoneInFlight
     /\ RoomForDeviceLicense
     /\ RoomForDeviceHistory
     /\ WebhookRequest(1, CheckoutEvents)
  \/ \E p \in Procs : RoomForDevice /\ ValidateRequest(p)
  \/ \E p \in Procs : handleCheckoutComplete(p)
  \/ \E p \in Procs : AuthController_validateLicense(p)

DeviceParallelSpec == Init /\ [][DeviceParallelNext]_vars

\* ---- device quota: an account is activated by its subscription (the
\* activation is delivered once per account), obtains its license through
\* login-license, and authorizes devices through the three paths, one
\* request at a time
ActivationEvents ==
  {e \in EventIds : /\ Events[e].type = "customer.subscription.updated"
                    /\ Events[e].status = "active"}

QuotaRequest(p) ==
  \/ /\ \A u \in Users : users[u].subscription_status # "active"
     /\ WebhookRequest(p, ActivationEvents)
  \/ RoomForDevice /\ ValidateRequest(p)
  \/ RoomForDevice /\ LoginRequest(p)
  \/ RoomForDevice /\ MiddlewareRequest(p)

QuotaStep(p) ==
  \/ handleSubscriptionUpdate(p)
  \/ AuthController_validateLicense(p)
  \/ AuthController_loginAndGetLicense(p)
  \/ LicenseService_validateLicense(p)
  \/ LicenseService_activateDevice(p)

QuotaNext ==
  \/ Tick(MaxDeviceTick)
  \/ NoneInFlight /\ QuotaRequest(1)
  \/ \E p \in Procs : QuotaStep(p)

QuotaSpec == Init /\ [][QuotaNext]_vars

\* ---- reconciliation: every billing event, license validation by account
\* and one authorization path, one request at a time, on a small store
ReconcileRequest(p) ==
  \/ \E e \in EventIds :
       /\ Events[e].type \in IssuingTypes => RoomForDeviceLicense
       /\ Events[e].type \in HistoryTypes => RoomForDeviceHistory
       /\ handleWebhook(p, e, "valid", TRUE, TRUE)
       /\ UNCHANGED hits
  \/ WebhookRequest(p, {})
  \/ CheckRequest(p)
  \/ /\ Cardinality(devices) + PendingDevices < MaxReconcileRows
     /\ ValidateRequest(p)

ReconcileStep(p) ==
  \/ BillingStep(p)
  \/ AuthController_validateLicense(p)

ReconcileNext ==
  \/ Tick(MaxDeviceTick)
  \/ NoneInFlight /\ ReconcileRequest(1)
  \/ \E p \in Procs : ReconcileStep(p)

ReconcileSpec == Init /\ [][ReconcileNext]_vars

\* ---- store failures: a store call of a multi-step operation returns an
\* error or the client throws, with requests handled one at a time

\* the upsert of the authorization returns upsertError: it is thrown and the
\* catch answers 500; the delete that came before it is not undone
UpsertFails(p) ==
  /\ proc[p].op \in AuthorizationOps
  /\ proc[p].pc = "upsert"
  /\ proc' = [proc EXCEPT ![p] =
                Respond(p, 500, IF proc[p].op = "validate"
                                THEN "Failed to validate license"
                                ELSE "Failed to login and validate license")]
  /\ UNCHANGED <<now, schemaMigrated, hits, users, licenses, devices, history>>

\* the users update of handleCheckoutComplete fails: the error in the result
\* is not looked at and the handler goes on, or the client throws and the
\* catch of handleWebhook answers 500; the license inserted before it stays
AccountUpdateFails(p) ==
  /\ AtStep(p, "checkout.session.completed", "user")
  /\ \/ proc' = [proc EXCEPT ![p].pc = "hist"]
     \/ HandlerFailed(p)
  /\ UNCHANGED <<now, schemaMigrated, hits, users, licenses, devices, history>>

FaultRequest(p) ==
  \/ /\ RoomForLicense
     /\ RoomForHistory
     /\ WebhookRequest(p, CheckoutEvents)
  \/ RoomForDevice /\ ValidateRequest(p)

FaultStep(p) ==
  \/ handleCheckoutComplete(p)
  \/ AuthController_validateLicense(p)
  \/ UpsertFails(p)
  \/ AccountUpdateFails(p)

FaultNext ==
  \/ Tick(MaxDeviceTick)
  \/ NoneInFlight /\ FaultRequest(1)
  \/ \E p \in Procs : FaultStep(p)

FaultSpec == Init /\ [][FaultNext]_vars

\* ---- license rows: every operation that inserts or updates a license
\* (the three issuing handlers, login-license, validation by account), one
\* request at a time
LicenseRequest(p) ==
  \/ /\ RoomForLicense
     /\ RoomForHistory
     /\ WebhookRequest(p, IssuingEvents)
  \/ CheckRequest(p)
  \/ /\ Cardinality(devices) + PendingDevices < MaxReconcileRows
     /\ LoginMayCreate => RoomForLicense
     /\ LoginRequest(p)

LicenseStep(p) ==
  \/ handleCheckoutComplete(p)
  \/ handleSubscriptionCreated(p)
  \/ handlePaymentSucceeded(p)
  \/ AuthController_loginAndGetLicense(p)
  \/ LicenseService_validateLicense(p)

LicenseNext ==
  \/ Tick(MaxTick)
  \/ NoneInFlight /\ LicenseRequest(1)
  \/ \E p \in Procs : LicenseStep(p)

LicenseSpec == Init /\ [][LicenseNext]_vars

\* ---- one device row per pair: authorizations by license key and through
\* the middleware run in parallel for the same few devices, their store calls
\* interleaved; a checkout issues the one license while nothing is in flight
\* (rows of different licenses are never read or written together)
PairDevices == {DeviceOrder[i] : i \in 1..MaxReconcileRows}

PairRequest(p) ==
  \/ \E key \in KnownKeys, dev \in PairDevices :
       validateLicenseRequest(p, key, dev)
  \/ \E u \in Users, key \in KnownKeys, dev \in PairDevices :
       validateLicenseCall(p, u, key, TRUE, dev)

\* the two requests that run at the same time
PairProcs == {1, 2}

PairNext ==
  \/ Tick(MaxDeviceTick)
  \/ /\ NoneInFlight
     /\ licenses = << >>
     /\ WebhookRequest(1, CheckoutEvents)
  \/ \E p \in PairProcs : PairRequest(p)
  \/ \E p \in PairProcs : handleCheckoutComplete(p)
  \/ \E p \in PairProcs : AuthController_validateLicense(p)
  \/ \E p \in PairProcs : LicenseService_validateLicense(p)
  \/ \E p \in PairProcs : LicenseService_activateDevice(p)

PairSpec == Init /\ [][PairNext]_vars

\* ---- deactivation: licenses issued by checkout, devices authorized by
\* license key and deactivated by account, one request at a time
DeactivateRequest(p) ==
  \/ /\ RoomForLicense
     /\ RoomForHistory
     /\ WebhookRequest(p, CheckoutEvents)
  \/ RoomForDevice /\ ValidateRequest(p)
  \/ \E u \in Users, dev \in RequestDevices : deactivateDeviceCall(p, u, dev)

DeactivateStep(p) ==
  \/ handleCheckoutComplete(p)
  \/ AuthController_validateLicense(p)
  \/ LicenseService_deactivateDevice(p)

DeactivateNext ==
  \/ Tick(MaxDeviceTick)
  \/ NoneInFlight /\ DeactivateRequest(1)
  \/ \E p \in Procs : DeactivateStep(p)

DeactivateSpec == Init /\ [][DeactivateNext]_vars

\* ---- issuance: generateLicenseKey called for every license type, one call
\* at a time
IssueRequest(p) ==
  /\ RoomForLicense
  /\ \E u \in Users, licenseType \in LicenseTypes, sub \in DOMAIN StripeSubscriptions :
       generateLicenseKeyCall(p, u, licenseType, sub)

IssueNext ==
  \/ Tick(MaxTick)
  \/ IssueRequest(1)

IssueSpec == Init /\ [][IssueNext]_vars

\* ---- independent licenses: two licenses are issued, then request p
\* authorizes devices by the key of license p, the two requests in parallel
\* with their store calls interleaved. The clock advances only until the
\* first device row exists: timestamps play no part in what one license's
\* rows do to another's. The first license sees every device, and so
\* evictions; the others see the first MaxDeviceLicenses devices.
IndependentDevices(l) ==
  LET known == {d.device_id : d \in {r \in devices : r.license_id = l}}
      fresh == {DeviceOrder[i] : i \in {j \in 1..Len(DeviceOrder) :
                  \A k \in 1..(j - 1) : DeviceOrder[k] \in known}}
  IN IF l = 1 THEN known \cup fresh
     ELSE {DeviceOrder[i] : i \in 1..MaxDeviceLicenses} \cap (known \cup fresh)

IndependentIssue(p) ==
  /\ RoomForLicense
  /\ \E sub \in DOMAIN StripeSubscriptions :
       generateLicenseKeyCall(p, CHOOSE u \in Users : TRUE, "premium", sub)

IndependentRequest(p) ==
  /\ p \in LicenseIds
  /\ Cardinality({r \in devices : r.license_id = p}) < MaxDeviceRows
  /\ \E dev \in IndependentDevices(p) :
       validateLicenseRequest(p, licenses[p].license_key, dev)

IndependentNext ==
  \/ /\ devices = {}
     /\ NoneInFlight
     /\ Tick(MaxDeviceTick)
  \/ /\ devices = {}
     /\ NoneInFlight
     /\ IndependentIssue(1)
  \/ \E p \in PairProcs : IndependentRequest(p)
  \/ \E p \in PairProcs : AuthController_validateLicense(p)

IndependentSpec == Init /\ [][IndependentNext]_vars

\* ---- account frame: every operation on licenses and devices next to the
\* webhook that activates the account, one request at a time
FrameRequest(p) ==
  \/ /\ \A u \in Users : users[u].subscription_status # "active"
     /\ WebhookRequest(p, ActivationEvents)
  \/ CheckRequest(p)
  \/ /\ Cardinality(devices) + PendingDevices < MaxReconcileRows
     /\ \/ ValidateRequest(p)
        \/ MiddlewareRequest(p)
        \/ /\ (LoginMayCreate => RoomForDeviceLicense)
           /\ LoginRequest(p)
  \/ \E u \in Users, dev \in RequestDevices : deactivateDeviceCall(p, u, dev)

FrameStep(p) ==
  \/ handleSubscriptionUpdate(p)
  \/ AuthController_validateLicense(p)
  \/ AuthController_loginAndGetLicense(p)
  \/ LicenseService_validateLicense(p)
  \/ LicenseService_activateDevice(p)
  \/ LicenseService_deactivateDevice(p)

FrameNext ==
  \/ Tick(MaxDeviceTick)
  \/ NoneInFlight /\ FrameRequest(1)
  \/ \E p \in Procs : FrameStep(p)

FrameSpec == Init /\ [][FrameNext]_vars

\* ---- webhook limiter: requests of one client address pass the limiter of
\* the webhook route, one at a time: events that activate the account,
\* events of an unhandled type and requests that fail verification
LimiterEvents ==
  ActivationEvents \cup {e \in EventIds : Events[e].type \notin HandledTypes}

LimiterRequest(p) ==
  /\ hits < WebhookWindowMax + MaxBlocked
  /\ \/ \E e \in LimiterEvents : webhookLimiter(p, e, "valid", TRUE, TRUE)
     \/ \E sig \in Signatures, secretSet \in BOOLEAN, rawBody \in BOOLEAN :
          /\ ~(sig = "valid" /\ secretSet /\ rawBody)
          /\ webhookLimiter(p, 1, sig, secretSet, rawBody)

LimiterNext ==
  \/ WindowExpires
  \/ NoneInFlight /\ LimiterRequest(1)
  \/ \E p \in Procs : handleSubscriptionUpdate(p)

LimiterSpec == Init /\ [][LimiterNext]_vars

\* ---- dispatch under failures: deliveries of every event, handled one
\* after the other at one clock value (a second license of an account then
\* collides on its key), where any store or provider call of a handler may
\* throw

\* a handler without the try/catch of handleWebhook: the error is never
\* answered
DispatchFails_Uncaught(p) ==
  /\ proc[p].op = "webhook"
  /\ InFlight(p)
  /\ proc[p].pc # "failed"
  /\ proc' = [proc EXCEPT ![p].pc = "failed"]
  /\ UNCHANGED <<now, schemaMigrated, hits, users, licenses, devices, history>>

\* the call a handler awaits throws: the catch of handleWebhook answers 500
\* 'Webhook handler failed'; inside the try/catch of handlePaymentSucceeded
\* the error is logged and the handler goes on to its users update
DispatchFails(p) ==
  /\ proc[p].op = "webhook"
  /\ InFlight(p)
  /\ IF AtStep(p, "invoice.payment_succeeded", "issue")
     THEN proc' = [proc EXCEPT ![p].pc = "user"]
     ELSE HandlerFailed(p)
  /\ UNCHANGED <<now, schemaMigrated, hits, users, licenses, devices, history>>

DispatchRequest(p) ==
  \/ \E e \in EventIds :
       /\ Events[e].type \in IssuingTypes => RoomForDeviceLicense
       /\ Events[e].type \in HistoryTypes => RoomForDeviceHistory
       /\ handleWebhook(p, e, "valid", TRUE, TRUE)
       /\ UNCHANGED hits
  \/ WebhookRequest(p, {})

DispatchStep(p) ==
  \/ handleCheckoutComplete(p)
  \/ handleSubscriptionCreated(p)
  \/ handlePaymentSucceeded(p)
  \/ handleSubscriptionUpdate(p)
  \/ handleSubscriptionDeleted(p)
  \/ handlePaymentFailed(p)
  \/ DispatchFails(p)

DispatchNext ==
  \/ NoneInFlight /\ DispatchRequest(1)
  \/ \E p \in Procs : DispatchStep(p)

DispatchSpec == Init /\ [][DispatchNext]_vars

\* every continuation of a request in flight is run by the event loop: the
\* call it awaits returns or throws
DispatchFairSpec == DispatchSpec /\ \A p \in Procs : WF_vars(DispatchStep(p))

\* ================================================================ properties
DeviceCount(l) == Cardinality(DevicesOf(l))

\* C1: whenever no request is in flight (every authorization so far has
\* completed, one at a time), each license has at most max_devices device rows.
C1_QuotaAfterAuthorization ==
  NoneInFlight =>
    \A l \in LicenseIds : DeviceCount(l) <= licenses[l].max_devices

\* C1 witness: an authorization has just completed on a license that is
\* exactly at its quota.
C1_Witness ==
  /\ NoneInFlight
  /\ proc[1].op \in AuthorizationOps
  /\ proc[1].resp.status = 200
  /\ \E l \in LicenseIds : DeviceCount(l) = licenses[l].max_devices

\* C2: when authorizations of one license run concurrently, then once none of
\* them is in flight any more the license has at most max_devices device rows.
C2_QuotaAfterConcurrentAuthorizations ==
  \A l \in LicenseIds :
    (\A p \in Procs : InFlight(p) => proc[p].lic # l) =>
      DeviceCount(l) <= licenses[l].max_devices

\* C3: a request that re-authorizes a (license, device) pair that had a row
\* when the request read the devices removes no row of another device, sets
\* the pair's last_validated to the current time, and leaves the license with
\* as many rows as it had.
C3_ReauthorizeOnlyRefreshes ==
  [][\A p \in Procs :
       ( /\ proc[p].op \in AuthorizationOps
         /\ proc[p].pc \in {"del", "upsert", "count"}
         /\ proc[p].had
         /\ proc'[p] # proc[p] ) =>
       ( /\ \A d \in DevicesOf(proc[p].lic) :
              d.device_id # proc[p].dev => d \in devices'
         /\ proc[p].pc = "upsert" =>
              \E d \in devices' : /\ d.license_id = proc[p].lic
                                  /\ d.device_id = proc[p].dev
                                  /\ d.last_validated = now
         /\ proc'[p].pc = "done" =>
              Cardinality({d \in devices' : d.license_id = proc[p].lic})
                = proc[p].pre )]_vars

LicensesFor(u, sub) ==
  {i \in LicenseIds : /\ licenses[i].user_id = u
                      /\ licenses[i].stripe_subscription_id = sub}

\* C4: an issue call for an (account, subscription) pair that already has a
\* License row inserts no row, does not raise, and returns the key of the
\* existing row.
C4_IssueTwiceOneRow ==
  [][\A p \in Procs :
       ( /\ proc[p].op = "webhook"
         /\ proc[p].pc = "issue"
         /\ proc'[p] # proc[p]
         /\ LicensesFor(proc[p].usr, Events[proc[p].evt].sub) # {} ) =>
       ( /\ licenses' = licenses
         /\ proc'[p].pc = "user"
         /\ \E i \in LicensesFor(proc[p].usr, Events[proc[p].evt].sub) :
              proc'[p].key = licenses[i].license_key )]_vars

\* C5: a subscription_created event processed right after the acknowledged
\* checkout_completed event of the same subscription and account inserts no
\* License row, and when it completes the account's status is active.
C5_CreatedAfterCheckoutIssuesNone ==
  [][\A p \in Procs :
       ( /\ proc[p].op = "webhook"
         /\ InFlight(p)
         /\ proc'[p] # proc[p]
         /\ Events[proc[p].evt].type = "customer.subscription.created"
         /\ proc[p].prev # 0
         /\ Events[proc[p].prev].type = "checkout.session.completed"
         /\ Events[proc[p].prev].sub = Events[proc[p].evt].sub
         /\ Events[proc[p].prev].userId = proc[p].usr ) =>
       ( /\ licenses' = licenses
         /\ proc'[p].pc = "done" =>
              users'[proc[p].usr].subscription_status = "active" )]_vars

\* C6: there are never two active License rows of one account for one billing
\* subscription reference.
C6_OneActiveLicensePerSubscription ==
  \A i, j \in LicenseIds :
    ( /\ i # j
      /\ licenses[i].status = "active"
      /\ licenses[j].status = "active"
      /\ licenses[i].user_id = licenses[j].user_id
      /\ licenses[i].stripe_subscription_id # NULL ) =>
    licenses[i].stripe_subscription_id # licenses[j].stripe_subscription_id

\* C7: a delivery of the event that was acknowledged just before it (the same
\* event identifier again) changes no license, no account field and no
\* history row.
C7_RedeliveryChangesNothing ==
  [][\A p \in Procs :
       ( /\ proc[p].op = "webhook"
         /\ InFlight(p)
         /\ proc'[p] # proc[p]
         /\ proc[p].prev = proc[p].evt ) =>
       ( /\ licenses' = licenses
         /\ users' = users
         /\ history' = history )]_vars

\* C8: two requests that carry the same event identifier are never both
\* dispatched to a handler while the other is still being handled.
C8_SameEventDispatchedOnce ==
  \A p, q \in Procs :
    ( /\ p # q
      /\ proc[p].op = "webhook" /\ InFlight(p) /\ proc[p].disp
      /\ proc[q].op = "webhook" /\ InFlight(q) /\ proc[q].disp ) =>
    proc[p].evt # proc[q].evt

MostRecentActive(u) ==
  CHOOSE i \in ActiveOfUser(u) : \A j \in ActiveOfUser(u) : j <= i

\* C9: when a validation by account answers (and was not turned down for
\* carrying another license key): if the account's most recent active license
\* is past its expires_at, the answer is invalid and that license's status is
\* expired; and if the account has no active license that is not past its
\* expires_at, the answer is invalid.
C9_LazyExpiryByAccount ==
  [][\A p \in Procs :
       ( /\ proc'[p] # proc[p]
         /\ proc'[p].pc = "done"
         /\ proc'[p].op = "check"
         /\ proc'[p].resp.body # "Invalid license key" ) =>
       LET u == proc'[p].usr IN
       /\ ( /\ ActiveOfUser(u) # {}
            /\ licenses[MostRecentActive(u)].expires_at < now ) =>
          ( /\ proc'[p].resp.body # "valid"
            /\ licenses'[MostRecentActive(u)].status = "expired" )
       /\ {i \in ActiveOfUser(u) : licenses[i].expires_at >= now} = {} =>
            proc'[p].resp.body # "valid" ]_vars

\* C10: a validate-license request whose key names an active license that is
\* past its expires_at is answered as invalid, sets the license's status to
\* expired and touches no authorized device row.
C10_LazyExpiryByKey ==
  [][\A p \in Procs :
       ( /\ Free(p)
         /\ proc'[p] # proc[p]
         /\ proc'[p].op = "validate"
         /\ proc'[p].lic # 0
         /\ licenses[proc'[p].lic].status = "active"
         /\ licenses[proc'[p].lic].expires_at < now ) =>
       ( /\ proc'[p].pc = "done"
         /\ proc'[p].resp.status # 200
         /\ licenses'[proc'[p].lic].status = "expired"
         /\ devices' = devices )]_vars

\* C11: a webhook request with a signature that does not verify, a body that
\* is not the raw payload, or no signing secret configured is answered with
\* an error status and changes no table.
C11_UnverifiedWebhookRejected ==
  [][\A p \in Procs :
       ( /\ Free(p)
         /\ proc'[p] # proc[p]
         /\ proc'[p].op = "webhook"
         /\ ~proc'[p].verified ) =>
       ( /\ proc'[p].pc = "done"
         /\ proc'[p].resp.status \in {400, 500}
         /\ db' = db )]_vars

\* C11 witness: a request with a bad signature has been turned down while the
\* store holds a license and a history row.
C11_Witness ==
  /\ proc[1].pc = "done"
  /\ proc[1].op = "webhook"
  /\ proc[1].resp.body = "Webhook Error"
  /\ licenses # << >>
  /\ history # << >>

\* C12: when a request for a device without a row finds the license at the
\* limit, the one row it removes has the smallest last_validated among the
\* rows of the license.
C12_EvictsLeastRecentlyValidated ==
  [][\A p \in Procs :
       ( /\ proc[p].op \in AuthorizationOps
         /\ proc[p].pc = "del"
         /\ ~proc[p].had
         /\ proc'[p] # proc[p] ) =>
       \E d \in DevicesOf(proc[p].lic) :
         /\ devices' = devices \ {d}
         /\ \A o \in DevicesOf(proc[p].lic) :
              d.last_validated <= o.last_validated]_vars

\* C12 witness: a new device's request has just removed a row of a license
\* whose remaining rows were validated at different times.
C12_Witness ==
  /\ proc[1].op \in AuthorizationOps
  /\ proc[1].pc = "upsert"
  /\ ~proc[1].had
  /\ AtDeviceLimit(proc[1].pre)
  /\ \E d, o \in DevicesOf(proc[1].lic) : d.last_validated < o.last_validated

\* C13: a request for a device without a row, on a license that holds exactly
\* max_devices rows, removes exactly one row, then inserts the row of the new
\* device validated now, changes no other row, and ends with max_devices rows.
C13_EvictOneInsertOne ==
  [][\A p \in Procs :
       ( /\ proc[p].op \in AuthorizationOps
         /\ proc[p].pc \in {"del", "upsert", "count"}
         /\ ~proc[p].had
         /\ proc[p].pre = licenses[proc[p].lic].max_devices
         /\ proc'[p] # proc[p] ) =>
       LET l == proc[p].lic IN
       /\ proc[p].pc = "del" =>
            /\ devices' \subseteq devices
            /\ Cardinality(devices \ devices') = 1
       /\ proc[p].pc = "upsert" =>
            /\ devices \subseteq devices'
            /\ \E d \in devices' \ devices :
                 /\ devices' \ devices = {d}
                 /\ d.license_id = l
                 /\ d.device_id = proc[p].dev
                 /\ d.last_validated = now
       /\ proc[p].pc = "count" =>
            /\ devices' = devices
            /\ DeviceCount(l) = licenses[l].max_devices
            /\ proc'[p].resp.count = licenses[l].max_devices]_vars

\* C13 witness: devices A, B, C were authorized in that order, D has just
\* been authorized, and the license holds B, C and D.
C13_Witness ==
  /\ proc[1].pc = "done"
  /\ proc[1].op = "validate"
  /\ proc[1].resp.count = 3
  /\ \E l \in LicenseIds :
       /\ licenses[l].max_devices = 3
       /\ {d.device_id : d \in DevicesOf(l)} = {"B", "C", "D"}

\* C14: an authorization removes a row only when the license holds at least
\* its own max_devices rows, and the max_devices it reports is the license's.
C14_QuotaIsLicenseMaxDevices ==
  [][\A p \in Procs :
       ( /\ proc[p].op \in AuthorizationOps
         /\ proc[p].pc \in {"devs", "count"}
         /\ proc'[p] # proc[p] ) =>
       LET l == proc[p].lic IN
       /\ (proc[p].pc = "devs" /\ proc'[p].pc = "del") =>
            DeviceCount(l) >= licenses[l].max_devices
       /\ proc[p].pc = "count" =>
            proc'[p].resp.max = licenses[l].max_devices]_vars

\* C15: the step of a payment_failed event sets the customer's account to
\* past_due and leaves every license row and every device row as it was.
C15_PaymentFailedSetsPastDue ==
  [][\A p \in Procs :
       ( /\ AtStep(p, "invoice.payment_failed", "user")
         /\ proc'[p] # proc[p] ) =>
       ( /\ users'[proc[p].usr].subscription_status = "past_due"
         /\ licenses' = licenses
         /\ devices' = devices )]_vars

C15_Witness ==
  /\ proc[1].pc = "done"
  /\ proc[1].op = "webhook"
  /\ proc[1].evt \in EventIds
  /\ Events[proc[1].evt].type = "invoice.payment_failed"
  /\ proc[1].resp.status = 200
  /\ users["u1"].subscription_status = "past_due"
  /\ licenses # << >>
  /\ devices # {}

\* C16: the steps of a subscription_deleted event set the account to canceled
\* with no period end and leave every license row as it was; and a validation
\* by account of a canceled account whose one active license has not passed
\* its expires_at answers valid (unless a different key is presented), while
\* one past its expires_at goes on to mark it expired.
C16_CancellationKeepsLicense ==
  [][\A p \in Procs :
       /\ ( /\ proc[p].op = "webhook"
            /\ proc[p].pc \in {"user", "hist"}
            /\ Events[proc[p].evt].type = "customer.subscription.deleted"
            /\ proc'[p] # proc[p] ) =>
          ( /\ licenses' = licenses
            /\ devices' = devices
            /\ users'[proc[p].usr].subscription_status = "canceled"
            /\ users'[proc[p].usr].subscription_current_period_end = NoTime )
       /\ ( /\ Free(p)
            /\ proc'[p] # proc[p]
            /\ proc'[p].op = "check"
            /\ users[proc'[p].usr].subscription_status = "canceled"
            /\ Cardinality(ActiveOfUser(proc'[p].usr)) = 1 ) =>
          LET l == CHOOSE i \in ActiveOfUser(proc'[p].usr) : TRUE IN
          IF licenses[l].expires_at < now
          THEN proc'[p].pc = "s_expire" \/ proc'[p].resp.body = "Invalid license key"
          ELSE /\ proc'[p].pc = "done"
               /\ proc'[p].resp.body \in {"valid", "Invalid license key"}]_vars

C16_Witness ==
  /\ proc[1].pc = "done"
  /\ proc[1].op = "check"
  /\ proc[1].resp.body = "valid"
  /\ users["u1"].subscription_status = "canceled"
  /\ users["u1"].subscription_current_period_end = NoTime
  /\ \E i \in 1..Len(history) : history[i].status = "canceled"

\* C17: the steps of a subscription_updated event change, of the account, only
\* its status and period end, append exactly one history row, and leave the
\* license rows and the device rows as they were.
C17_UpdateTouchesNoLicense ==
  [][\A p \in Procs :
       ( /\ proc[p].op = "webhook"
         /\ proc[p].pc \in {"user", "hist"}
         /\ Events[proc[p].evt].type = "customer.subscription.updated"
         /\ proc'[p] # proc[p] ) =>
       LET u == proc[p].usr IN
       /\ licenses' = licenses
       /\ devices' = devices
       /\ \A o \in Users \ {u} : users'[o] = users[o]
       /\ users'[u].subscription_id = users[u].subscription_id
       /\ proc[p].pc = "user" =>
            /\ history' = history
            /\ proc'[p].pc = "hist"
       /\ proc[p].pc = "hist" =>
            /\ users' = users
            /\ Len(history') = Len(history) + 1
            /\ SubSeq(history', 1, Len(history)) = history
            /\ history'[Len(history')].user_id = u
            /\ proc'[p].pc = "done"]_vars

C17_Witness ==
  /\ proc[1].pc = "done"
  /\ proc[1].op = "webhook"
  /\ proc[1].evt \in EventIds
  /\ Events[proc[1].evt].type = "customer.subscription.updated"
  /\ proc[1].resp.status = 200
  /\ users["u1"].subscription_status = "past_due"
  /\ licenses # << >>
  /\ Len(history) = 1
  /\ history[1].status = "past_due"

\* C18: a payment_succeeded event of a customer whose account already has a
\* license inserts no license row, and every acknowledged payment_succeeded
\* event of a known customer leaves the account active.
C18_PaymentSucceededIssuesOnce ==
  [][\A p \in Procs :
       /\ ( /\ AtStep(p, "invoice.payment_succeeded", "issue")
            /\ proc'[p] # proc[p]
            /\ \E i \in LicenseIds : licenses[i].user_id = proc[p].usr ) =>
          licenses' = licenses
       /\ ( /\ Free(p)
            /\ proc'[p] # proc[p]
            /\ proc'[p].op = "webhook"
            /\ proc'[p].pc = "done"
            /\ proc'[p].resp.status = 200
            /\ proc'[p].evt \in EventIds
            /\ Events[proc'[p].evt].type = "invoice.payment_succeeded"
            /\ UserOfCustomer(Events[proc'[p].evt].customer) # NULL ) =>
          users'[UserOfCustomer(Events[proc'[p].evt].customer)].subscription_status
            = "active"]_vars

\* C19: the status mapping keeps active, past_due and canceled and turns every
\* other provider status into canceled; the account status written by a
\* subscription_created or subscription_updated event is the mapped status of
\* the event, one of active, past_due, canceled.
C19_StatusMapping ==
  [][/\ mapStripeStatus("active") = "active"
     /\ mapStripeStatus("past_due") = "past_due"
     /\ mapStripeStatus("canceled") = "canceled"
     /\ \A s \in ProviderStatuses \ {"active", "past_due", "canceled"} :
          mapStripeStatus(s) = "canceled"
     /\ \A p \in Procs :
          ( /\ proc[p].op = "webhook"
            /\ proc[p].pc = "user"
            /\ Events[proc[p].evt].type \in {"customer.subscription.created",
                                             "customer.subscription.updated"}
            /\ proc'[p] # proc[p] ) =>
          LET written == users'[proc[p].usr].subscription_status
              given == Events[proc[p].evt].status IN
          /\ given \in ProviderStatuses
          /\ written \in {"active", "past_due", "canceled"}
          /\ given \in {"active", "past_due", "canceled"} => written = given
          /\ given \notin {"active", "past_due", "canceled"} => written = "canceled"]_vars

C19_Witness ==
  /\ proc[1].pc = "done"
  /\ proc[1].op = "webhook"
  /\ proc[1].evt \in EventIds
  /\ Events[proc[1].evt].type = "customer.subscription.created"
  /\ Events[proc[1].evt].status = "incomplete"
  /\ proc[1].resp.status = 200
  /\ users["u1"].subscription_status = "canceled"
  /\ Len(history) = 1
  /\ history[1].status = "canceled"

\* C20: a verified delivery of an event whose type is none of the six handled
\* types is answered at once with 200 {received: true}, and no users, licenses,
\* devices or history row changes.
C20_UnhandledTypeAcknowledged ==
  [][\A p \in Procs :
       ( /\ Free(p)
         /\ proc'[p] # proc[p]
         /\ proc'[p].op = "webhook"
         /\ proc'[p].verified
         /\ Events[proc'[p].evt].type \notin
              {"checkout.session.completed", "customer.subscription.created",
               "customer.subscription.updated", "customer.subscription.deleted",
               "invoice.payment_succeeded", "invoice.payment_failed"} ) =>
       ( /\ proc'[p].pc = "done"
         /\ proc'[p].resp.status = 200
         /\ proc'[p].resp.body = "received"
         /\ db' = db )]_vars

C20_Witness ==
  /\ proc[1].pc = "done"
  /\ proc[1].op = "webhook"
  /\ proc[1].verified
  /\ Events[proc[1].evt].type = "customer.created"
  /\ proc[1].resp.status = 200
  /\ licenses # << >>
  /\ history # << >>
  /\ devices # {}

\* C21: a request that fails part-way leaves no partial state: an
\* authorization answered 500 at its upsert leaves the license with the rows
\* it had when the request read them; a checkout answered 500 after its
\* license insert leaves no row with the key it inserted; and an acknowledged
\* checkout leaves the account active on the event's subscription.
C21_NoPartialState ==
  [][\A p \in Procs :
       /\ ( /\ proc[p].op \in AuthorizationOps
            /\ proc[p].pc = "upsert"
            /\ proc'[p].pc = "done"
            /\ proc'[p].resp.status = 500 ) =>
          Cardinality({d \in devices' : d.license_id = proc[p].lic}) = proc[p].pre
       /\ ( /\ proc[p].op = "webhook"
            /\ proc[p].pc \in {"user", "hist"}
            /\ Events[proc[p].evt].type = "checkout.session.completed"
            /\ proc'[p].pc = "done" ) =>
          IF proc'[p].resp.status = 500
          THEN \A i \in 1..Len(licenses') :
                 licenses'[i].license_key # proc[p].key
          ELSE /\ users'[proc[p].usr].subscription_status = "active"
               /\ users'[proc[p].usr].subscription_id = Events[proc[p].evt].sub]_vars

\* the rows of a subscription in the licenses table and in the history
LicensesOfSubscription(sub) ==
  {i \in LicenseIds : licenses[i].stripe_subscription_id = sub}
HistoryOfSubscription(sub) ==
  {i \in 1..Len(history) : history[i].stripe_subscription_id = sub}

\* C22: a dispatch that throws is answered 500 "Webhook handler failed", not
\* the 400 of a signature failure, and once a delivery of a checkout is
\* acknowledged the subscription has no more licenses than acknowledged
\* deliveries (one history row each), whatever deliveries failed before it.
C22_RetryAfterFailureIsSafe ==
  \A p \in Procs :
    ( /\ proc[p].pc = "done"
      /\ proc[p].op = "webhook"
      /\ proc[p].evt \in CheckoutEvents ) =>
    /\ proc[p].resp.status \in {200, 500}
    /\ proc[p].resp.status = 500 => proc[p].resp.body = "Webhook handler failed"
    /\ proc[p].resp.status = 200 =>
         Cardinality(LicensesOfSubscription(Events[proc[p].evt].sub))
           <= Cardinality(HistoryOfSubscription(Events[proc[p].evt].sub))

\* C23: when a license of the event's subscription already exists, the issuing
\* step of checkout_completed, subscription_created and payment_succeeded
\* never ends the request with a failure: the handler goes on to its account
\* update, and the request is then acknowledged with 200.
C23_DuplicateIssueNotSurfaced ==
  [][\A p \in Procs :
       ( /\ proc[p].op = "webhook"
         /\ proc[p].pc \in {"issue", "user", "hist"}
         /\ Events[proc[p].evt].type \in IssuingTypes
         /\ proc'[p] # proc[p] ) =>
       /\ ( /\ proc[p].pc = "issue"
            /\ LicensesFor(proc[p].usr, Events[proc[p].evt].sub) # {} ) =>
          proc'[p].pc = "user"
       /\ proc'[p].pc = "done" =>
            /\ proc'[p].resp.status = 200
            /\ users'[proc[p].usr].subscription_status # "free"]_vars

\* C24: after every step no two license rows carry the same license_key, and
\* every row that existed before the step is still there with the key it had.
C24_LicenseKeyUniqueImmutable ==
  [][/\ \A i, j \in 1..Len(licenses') :
          i # j => licenses'[i].license_key # licenses'[j].license_key
     /\ Len(licenses') >= Len(licenses)
     /\ \A i \in LicenseIds :
          licenses'[i].license_key = licenses[i].license_key]_vars

\* C24 witness: an issue within the clock tick of an existing license of the
\* same account has just been refused, and the account holds a license
C24_Witness ==
  /\ proc[1].pc = "done"
  /\ proc[1].op = "webhook"
  /\ proc[1].resp.body = "Webhook handler failed"
  /\ \E i \in LicenseIds : licenses[i].license_key = LicenseKeyOf("u1", now)

\* the active licenses of account u whose expires_at has not passed
ActiveUnexpired(u) ==
  {i \in ActiveOfUser(u) : licenses[i].expires_at >= now}

\* C25: a validation by account of an account with at least one active,
\* unexpired license answers valid for the most recently issued of them
\* (unless a different key is presented), however many it holds.
C25_ResolvesMostRecentActive ==
  [][\A p \in Procs :
       ( /\ Free(p)
         /\ proc'[p] # proc[p]
         /\ proc'[p].op = "check"
         /\ ActiveUnexpired(proc'[p].usr) # {}
         /\ proc'[p].resp.body # "Invalid license key" ) =>
       ( /\ proc'[p].pc = "done"
         /\ proc'[p].resp.body = "valid"
         /\ \A i \in ActiveUnexpired(proc'[p].usr) : i <= proc'[p].lic )]_vars

\* C26: every step keeps every license row, in place; a row it changes is
\* changed in its status only, from active to expired, and only when the
\* clock is past the row's expires_at.
C26_LicenseNeverDeleted ==
  [][/\ Len(licenses') >= Len(licenses)
     /\ \A i \in LicenseIds :
          \/ licenses'[i] = licenses[i]
          \/ /\ licenses[i].status = "active"
             /\ licenses[i].expires_at < now
             /\ licenses'[i] = [licenses[i] EXCEPT !.status = "expired"]]_vars

\* C26 witness: a license was marked expired after its expires_at, and a
\* license issued after that is active beside it
C26_Witness ==
  /\ Len(licenses) = 2
  /\ licenses[1].status = "expired"
  /\ licenses[1].expires_at < now
  /\ licenses[2].status = "active"

\* C27: after every step there is at most one device row per (license, device
\* identifier), and an upsert for a pair that has a row keeps the number of
\* rows and sets that row's last_validated to the clock.
C27_OneRowPerLicenseDevice ==
  [][/\ \A d, e \in devices' :
          (d.license_id = e.license_id /\ d.device_id = e.device_id) => d = e
     /\ \A p \in Procs :
          ( /\ proc[p].op \in AuthorizationOps
            /\ proc[p].pc = "upsert"
            /\ proc'[p] # proc[p]
            /\ \E d \in DevicesOf(proc[p].lic) : d.device_id = proc[p].dev ) =>
          ( /\ Cardinality(devices') = Cardinality(devices)
            /\ \E d \in devices' : /\ d.license_id = proc[p].lic
                                   /\ d.device_id = proc[p].dev
                                   /\ d.last_validated = now )]_vars

\* C27 witness: two requests authorized the same new device on one license at
\* the same time; the second to write found the row of the first
C27_Witness ==
  /\ proc[1].op = "validate"
  /\ proc[1].pc = "count"
  /\ ~proc[1].had
  /\ proc[2].op = "validate"
  /\ proc[2].pc = "count"
  /\ ~proc[2].had
  /\ proc[1].lic = proc[2].lic
  /\ proc[1].dev = proc[2].dev
  /\ DeviceCount(proc[1].lic) = 1

\* C28: a deactivation for an account that holds an active license answers
\* success whether or not the device has a row; it removes the rows of that
\* device on the license and no other row, so a second deactivation changes
\* nothing.
C28_DeactivateIdempotent ==
  [][\A p \in Procs :
       /\ ( /\ Free(p)
            /\ proc'[p] # proc[p]
            /\ proc'[p].op = "deactivate"
            /\ ActiveOfUser(proc'[p].usr) # {} ) =>
          proc'[p].pc = "x_delete"
       /\ ( /\ proc[p].op = "deactivate"
            /\ proc[p].pc = "x_delete"
            /\ proc'[p] # proc[p] ) =>
          ( /\ proc'[p].pc = "done"
            /\ proc'[p].resp.status = 200
            /\ devices' \subseteq devices
            /\ \A d \in devices \ devices' : d.device_id = proc[p].dev
            /\ \A d \in devices' : ~(/\ d.license_id = proc[p].lic
                                     /\ d.device_id = proc[p].dev) )]_vars

\* C29: on each of the three authorization paths, a request of a device
\* without a row on a license that holds its quota of rows ends with the
\* device authorized: the answer is a success and the device has a row.
C29_QuotaBreachEvicts ==
  [][\A p \in Procs :
       ( /\ proc[p].op \in AuthorizationOps \cup {"middleware"}
         /\ proc[p].pc \in {"count", "a_exist", "a_insert", "a_touch"}
         /\ proc'[p].pc = "done" ) =>
       ( /\ proc'[p].resp.status = 200
         /\ proc'[p].resp.body = "valid"
         /\ \E d \in devices' : /\ d.license_id = proc[p].lic
                                /\ d.device_id = proc[p].dev )]_vars

\* C30: every license row has a type among trial, standard, premium and
\* enterprise, a status among active, expired, revoked and inactive, and a
\* device quota of at least 1.
C30_LicenseRowWellFormed ==
  \A i \in LicenseIds :
    /\ licenses[i].license_type \in LicenseTypes
    /\ licenses[i].status \in LicenseStatuses
    /\ licenses[i].max_devices >= 1

\* C31: a call of issue that succeeds appends one row, with status active,
\* quota 10 for enterprise and 3 for every other type, and an expiry 14 days
\* after the call for trial, 365 days after it for standard and premium, and
\* 3 * 365 days after it for enterprise.
C31_IssuedRowByType ==
  [][\A p \in Procs :
       ( /\ proc'[p] # proc[p]
         /\ proc'[p].op = "issue"
         /\ proc'[p].resp.status = 200 ) =>
       ( /\ Len(licenses') = Len(licenses) + 1
         /\ SubSeq(licenses', 1, Len(licenses)) = licenses
         /\ LET row == licenses'[Len(licenses')]
                type == row.license_type IN
            /\ proc'[p].lic = Len(licenses')
            /\ row.status = "active"
            /\ row.user_id = proc'[p].usr
            /\ type \in {"trial", "standard", "premium", "enterprise"}
            /\ row.max_devices = IF type = "enterprise" THEN 10 ELSE 3
            /\ type = "trial" => row.expires_at = now + 14
            /\ type \in {"standard", "premium"} => row.expires_at = now + 365
            /\ type = "enterprise" => row.expires_at = now + 3 * 365 )]_vars

C31_Witness ==
  /\ proc[1].pc = "done"
  /\ proc[1].op = "issue"
  /\ proc[1].resp.status = 200
  /\ Len(licenses) = 2
  /\ licenses[1].license_type = "trial"
  /\ licenses[1].expires_at = 14
  /\ licenses[2].license_type = "enterprise"
  /\ licenses[2].max_devices = 10

\* the reasons a validation or an authorization may give for a failure
C32_Reasons ==
  {"No active license found", "Invalid license key", "License has expired",
   "License has been revoked", "Device limit reached"}

\* C32: a license validation or device authorization that ends without
\* success gives one of the five reasons, and one refused for a license whose
\* status is expired gives "License has expired".
C32_ErrorReasonFromSet ==
  [][\A p \in Procs :
       ( /\ proc'[p] # proc[p]
         /\ proc'[p].pc = "done"
         /\ proc'[p].op \in {"check", "middleware", "validate"}
         /\ proc'[p].resp.body # "valid" ) =>
       ( /\ proc'[p].resp.body \in C32_Reasons
         /\ ( /\ proc'[p].lic \in LicenseIds
              /\ licenses'[proc'[p].lic].status = "expired" ) =>
            proc'[p].resp.body = "License has expired" )]_vars

\* C33: a step of an authorization on one license leaves the device rows of
\* every other license as they were; and while it runs beside an
\* authorization on another license, it finds its own license as a run on
\* its own would: the rows it counted are there when it deletes, and one
\* fewer (after an eviction) or the same number when it upserts.
C33_LicensesIndependent ==
  [][\A p \in Procs :
       ( /\ proc[p].op = "validate"
         /\ InFlight(p)
         /\ proc'[p] # proc[p] ) =>
       LET l == proc[p].lic
           own == {d \in devices : d.license_id = l} IN
       /\ {d \in devices' : d.license_id # l} = {d \in devices : d.license_id # l}
       /\ proc[p].pc = "devs" => proc'[p].pre = Cardinality(own)
       /\ proc[p].pc = "del" =>
            /\ Cardinality(own) = proc[p].pre
            /\ \E d \in own : RowId(d) = proc[p].old
            /\ Cardinality(devices') = Cardinality(devices) - 1
       /\ proc[p].pc = "upsert" =>
            Cardinality(own) = IF proc[p].pre >= 3 THEN proc[p].pre - 1
                                                   ELSE proc[p].pre]_vars

\* C33 witness: an authorization on one license has evicted a row and is
\* about to upsert while an authorization on another license is in flight
C33_Witness ==
  /\ proc[1].op = "validate"
  /\ proc[1].pc = "upsert"
  /\ proc[1].pre >= 3
  /\ proc[2].op = "validate"
  /\ proc[2].pc \in {"del", "upsert", "count"}
  /\ proc[1].lic # proc[2].lic
  /\ \E d \in devices : d.license_id = proc[2].lic

\* C34: a step of a request that is not a webhook (license validation,
\* authorization by key or by login, authorization in the middleware,
\* deactivation) leaves the subscription status, subscription reference
\* and period end of every account unchanged.
C34_OnlyWebhooksChangeSubscription ==
  [][(\E p \in Procs : /\ proc'[p] # proc[p]
                       /\ proc'[p].op # "webhook") => users' = users]_vars

\* C34 witness: a deactivation has answered for an account that a webhook
\* made active, with a license and its subscription fields still set
C34_Witness ==
  /\ proc[1].pc = "done"
  /\ proc[1].op = "deactivate"
  /\ proc[1].resp.status = 200
  /\ \E u \in Users : /\ users[u].subscription_status = "active"
                      /\ users[u].subscription_current_period_end # NoTime
  /\ Len(licenses) > 0

\* C35: a webhook request arriving when fewer than 10 requests were counted
\* in the window is handed to the handler, so at most 10 are; one arriving
\* after that is answered 429, whatever its signature, and the store is as
\* it was.
C35_WebhookRateLimit ==
  [][\A p \in Procs :
       ( /\ Free(p)
         /\ proc'[p] # proc[p]
         /\ proc'[p].op = "webhook" ) =>
       /\ hits' = hits + 1
       /\ IF hits >= 10
          THEN /\ proc'[p].pc = "done"
               /\ proc'[p].resp.status = 429
               /\ db' = db
          ELSE proc'[p].resp.status # 429]_vars

\* C35 witness: the twelfth request of a window has been answered 429 after
\* earlier requests of the window were handled and activated the account
C35_Witness ==
  /\ hits = 12
  /\ proc[1].pc = "done"
  /\ proc[1].resp.status = 429
  /\ Len(history) > 0
  /\ \E u \in Users : users[u].subscription_status = "active"

\* C36: when an authorization served on its own answers with success, the
\* device it authorized has a row of the license whose last_validated is
\* the largest among the license's rows, and the device count in the answer
\* is the number of rows the license has at that moment.
C36_AuthorizedDeviceIsNewest ==
  [][\A p \in Procs :
       ( /\ proc[p].op \in {"validate", "login"}
         /\ proc[p].pc = "count"
         /\ proc'[p].pc = "done"
         /\ proc'[p].resp.status = 200 ) =>
       LET rows == {d \in devices' : d.license_id = proc[p].lic} IN
       /\ \E d \in rows :
            /\ d.device_id = proc[p].dev
            /\ \A o \in rows : o.last_validated <= d.last_validated
       /\ proc'[p].resp.count = Cardinality(rows)]_vars

\* C36 witness: a device that had a row of a license at quota was evicted
\* as the oldest and inserted again, and its authorization is about to answer
C36_Witness ==
  /\ proc[1].op \in {"validate", "login"}
  /\ proc[1].pc = "count"
  /\ proc[1].had
  /\ proc[1].pre >= 3
  /\ \E d \in devices :
       /\ d.license_id = proc[1].lic
       /\ d.device_id = proc[1].dev
       /\ d.created_at = now
       /\ \E o \in devices : o.license_id = d.license_id /\ o.created_at < now
  /\ Cardinality({d \in devices : d.license_id = proc[1].lic}) = 3

\* C37: a step of login-license that creates a license does so only for an
\* account that had no active license and whose subscription status is
\* active, so that the account then has exactly one active license; and a
\* login-license rejected for want of a license and of an active
\* subscription leaves licenses and devices as they were.
C37_LoginKeepsOneActiveLicense ==
  [][\A p \in Procs :
       ( /\ proc[p].op = "login"
         /\ proc'[p] # proc[p] ) =>
       /\ Len(licenses') > Len(licenses) =>
            LET u == proc[p].usr
                activeOf(ls) ==
                  {i \in 1..Len(ls) : /\ ls[i].status = "active"
                                      /\ \/ ls[i].user_id = u
                                         \/ ls[i].user_email = EmailOf(u)}
            IN /\ activeOf(licenses) = {}
               /\ users[u].subscription_status = "active"
               /\ Cardinality(activeOf(licenses')) = 1
       /\ proc'[p].resp.status = 403 =>
            /\ licenses' = licenses
            /\ devices' = devices]_vars

\* C38: a verified event of a handled type that carries no userId (checkout)
\* or the billing customer reference of no account (the other types) is
\* answered 200 at once, and licenses, accounts, devices and history are as
\* they were.
C38_UnresolvedAccountAcknowledged ==
  [][\A p \in Procs :
       ( /\ Free(p)
         /\ proc'[p] # proc[p]
         /\ proc'[p].op = "webhook"
         /\ proc'[p].verified
         /\ Events[proc'[p].evt].type \in HandledTypes
         /\ IF Events[proc'[p].evt].type = "checkout.session.completed"
            THEN Events[proc'[p].evt].userId = NULL
            ELSE \A u \in Users : CustomerOf(u) # Events[proc'[p].evt].customer ) =>
       /\ proc'[p].pc = "done"
       /\ proc'[p].resp.status = 200
       /\ db' = db]_vars

\* C38 witness: a subscription.created event for a customer of no account
\* has been acknowledged while an account's subscription status was set
C38_Witness ==
  /\ proc[1].pc = "done"
  /\ proc[1].op = "webhook"
  /\ proc[1].verified
  /\ Events[proc[1].evt].type = "customer.subscription.created"
  /\ \A u \in Users : CustomerOf(u) # Events[proc[1].evt].customer
  /\ proc[1].resp.status = 200
  /\ \E u \in Users : users[u].subscription_status # "free"

\* C39: every webhook request that the handler dispatches is eventually
\* answered, with the acknowledgement or with the handler failure, whichever
\* calls fail on the way and whatever happens to the requests handled
\* beside it (a request that fails verification is answered at once).
C39_WebhookAlwaysAnswered ==
  \A p \in Procs :
    (proc[p].op = "webhook" /\ InFlight(p)) ~>
      ( /\ proc[p].op = "webhook"
        /\ proc[p].pc = "done"
        /\ proc[p].resp.status \in {200, 500} )

\* C39 witness: a delivery is being handled after an earlier one failed
\* between its license insert and its account update (a license exists and
\* no account was ever updated)
C39_Witness ==
  /\ proc[1].op = "webhook"
  /\ InFlight(1)
  /\ Events[proc[1].evt].type = "invoice.payment_failed"
  /\ Len(licenses) > 0
  /\ \A u \in Users : users[u].subscription_status = "free"

====
